---- MODULE Spec2Model ----
(***************************************************************************)
(* The three MCP servers of the collection (customer data, HRM,            *)
(* engineering) as one state machine.  A process is one server with its    *)
(* mock database; a step is one tool call handled to completion by the     *)
(* CallToolRequestSchema handler, followed by the reply that the transport *)
(* sends back.                                                             *)
(*                                                                         *)
(* Conventions                                                             *)
(*  - a JavaScript string that the code lower-cases or searches is a       *)
(*    sequence of one-character strings ("text"); a string that the code   *)
(*    only compares with === is a TLA+ string;                             *)
(*  - an optional property (args.query, incident.resolvedAt) is <<>> when  *)
(*    the property is undefined and <<v>> when it holds v;                 *)
(*  - a JavaScript number is [kind, n, d]: the rational n/d, or NaN;       *)
(*  - the text of a reply is the record of the values interpolated into    *)
(*    it, in the order the template lists them.                            *)
(***************************************************************************)
EXTENDS Integers, Sequences, FiniteSets, TLC

VARIABLES server, db, pc, request, response, calls, today

vars == <<server, db, pc, request, response, calls, today>>

(***************************************************************************)
(* Bounds                                                                  *)
(***************************************************************************)
\* largest number of records in one collection of a database
MaxRecs == 3

\* largest number of tools/call requests whose handlers overlap
MaxCalls == 2

\* indexes of the sample records each collection is populated from
Samples == {1, 2, 3, 4}

(***************************************************************************)
(* JavaScript strings                                                      *)
(***************************************************************************)
UpperCaseLetters == <<"A", "B", "C", "D", "E", "F", "G", "H", "I", "J", "K", "L", "M",
                      "N", "O", "P", "Q", "R", "S", "T", "U", "V", "W", "X", "Y", "Z">>

LowerCaseLetters == <<"a", "b", "c", "d", "e", "f", "g", "h", "i", "j", "k", "l", "m",
                      "n", "o", "p", "q", "r", "s", "t", "u", "v", "w", "x", "y", "z">>

\* the lower-case letter of each upper-case letter
lowerCaseOf ==
  [c \in {UpperCaseLetters[i] : i \in DOMAIN UpperCaseLetters} |->
     LowerCaseLetters[CHOOSE i \in DOMAIN UpperCaseLetters : UpperCaseLetters[i] = c]]

\* String.prototype.toLowerCase on one character
LowerChar(c) == IF c \in DOMAIN lowerCaseOf THEN lowerCaseOf[c] ELSE c

\* String.prototype.toLowerCase
toLowerCase(s) == [i \in 1..Len(s) |-> LowerChar(s[i])]

\* String.prototype.includes: q occurs in s as a contiguous substring
includes(s, q) ==
  \E i \in 0..(Len(s) - Len(q)) : SubSeq(s, i + 1, i + Len(q)) = q

(***************************************************************************)
(* Optional properties and truthiness                                      *)
(***************************************************************************)
undefined == <<>>

Some(v) == <<v>>

\* the set of values of an optional property: undefined or one of vals
Optional(vals) == {undefined} \cup {Some(v) : v \in vals}

\* `if (args.x)` for a text property: undefined and "" are falsy
TruthyText(o) == Len(o) > 0 /\ Len(o[1]) > 0

\* `if (args.x)` for a string compared with ===: undefined and "" are falsy
TruthyString(o) == Len(o) > 0 /\ o[1] # ""

\* `if (args.x)` / `args.x || dflt` for a number: undefined and 0 are falsy
TruthyNumber(o) == Len(o) > 0 /\ o[1] # 0

(***************************************************************************)
(* Arrays                                                                  *)
(***************************************************************************)
\* Array.prototype.filter: the elements satisfying Test, in their order
filter(arr, Test(_)) == SelectSeq(arr, Test)

\* Array.prototype.find(e => e.id === id), as an optional value
RECURSIVE findById(_, _)
findById(arr, id) ==
  IF arr = <<>> THEN undefined
  ELSE IF Head(arr).id = id THEN Some(Head(arr))
       ELSE findById(Tail(arr), id)

\* arr.reduce((sum, r) => sum + Field(r), 0)
sumOf(arr, Field(_)) ==
  LET partial[i \in 0..Len(arr)] ==
        IF i = 0 THEN 0 ELSE partial[i - 1] + Field(arr[i])
  IN  partial[Len(arr)]

\* arr.reduce((acc, r) => { acc[Key(r)] = (acc[Key(r)] || 0) + 1; return acc }, {})
\* as Object.entries lists it: one [key, count] per key, in insertion order
countBy(arr, Key(_)) ==
  LET acc[i \in 0..Len(arr)] ==
        IF i = 0 THEN <<>>
        ELSE LET prev == acc[i - 1]
                 key == Key(arr[i])
             IN  IF \E j \in DOMAIN prev : prev[j].key = key
                 THEN [j \in DOMAIN prev |->
                         IF prev[j].key = key
                         THEN [key |-> key, count |-> prev[j].count + 1]
                         ELSE prev[j]]
                 ELSE Append(prev, [key |-> key, count |-> 1])
  IN  acc[Len(arr)]

\* arr.forEach(r => { if (!grouped[Key(r)]) grouped[Key(r)] = []; grouped[Key(r)].push(r) })
\* as Object.entries lists it: one [key, items] per key, in insertion order
groupRecords(arr, Key(_)) ==
  LET grouped[i \in 0..Len(arr)] ==
        IF i = 0 THEN <<>>
        ELSE LET prev == grouped[i - 1]
                 key == Key(arr[i])
             IN  IF \E j \in DOMAIN prev : prev[j].key = key
                 THEN [j \in DOMAIN prev |->
                         IF prev[j].key = key
                         THEN [key |-> key, items |-> Append(prev[j].items, arr[i])]
                         ELSE prev[j]]
                 ELSE Append(prev, [key |-> key, items |-> <<arr[i]>>])
  IN  grouped[Len(arr)]

\* Array.prototype.sort(compare): stable; x precedes y when compare(x, y) < 0
sort(arr, compare(_, _)) ==
  LET sorted[i \in 0..Len(arr)] ==
        IF i = 0 THEN <<>>
        ELSE LET prev == sorted[i - 1]
                 x == arr[i]
                 k == Cardinality({j \in DOMAIN prev : compare(prev[j], x) <= 0})
             IN  SubSeq(prev, 1, k) \o <<x>> \o SubSeq(prev, k + 1, Len(prev))
  IN  sorted[Len(arr)]

\* Array.prototype.slice(0, n)
slice(arr, n) == SubSeq(arr, 1, IF Len(arr) < n THEN Len(arr) ELSE n)

\* Array.prototype.map
map(arr, F(_)) == [i \in 1..Len(arr) |-> F(arr[i])]

\* Math.min(...values) and Math.max(...values) of a non-empty array
min(values) == CHOOSE v \in {values[i] : i \in DOMAIN values} :
                 \A i \in DOMAIN values : v <= values[i]

max(values) == CHOOSE v \in {values[i] : i \in DOMAIN values} :
                 \A i \in DOMAIN values : v >= values[i]

(***************************************************************************)
(* JavaScript numbers                                                      *)
(***************************************************************************)
NaN == [kind |-> "NaN", n |-> 0, d |-> 1]

Infinity == [kind |-> "Infinity", n |-> 0, d |-> 1]

\* the number n/d, d > 0
Number(n, d) == [kind |-> "number", n |-> n, d |-> d]

\* the operator `/` on two integers: 0/0 is NaN and x/0 is an infinity
divide(a, b) ==
  IF b = 0 THEN (IF a = 0 THEN NaN ELSE Infinity)
  ELSE IF b > 0 THEN Number(a, b) ELSE Number(0 - a, 0 - b)

\* Math.round: the nearest integer, halves rounded up; NaN stays NaN
round(x) ==
  IF x.kind = "number" THEN Number((2 * x.n + x.d) \div (2 * x.d), 1) ELSE x

\* Number.prototype.toFixed(digits) for digits in 0..2, as the number of
\* 10^-digits units it prints; NaN prints "NaN"
toFixed(x, digits) ==
  LET scale == CASE digits = 0 -> 1 [] digits = 1 -> 10 [] OTHER -> 100
  IN  IF x.kind = "number"
      THEN Number((2 * x.n * scale + x.d) \div (2 * x.d), scale)
      ELSE x

\* x * k for an integer k
times(x, k) == IF x.kind = "number" THEN Number(x.n * k, x.d) ELSE x

(***************************************************************************)
(* Databases                                                               *)
(*                                                                         *)
(* The servers build their database once, from literals.  The model lets   *)
(* the literals vary: a database is built from a seed, a sequence of       *)
(* distinct sample indexes, and its i-th record of every collection is the *)
(* sample of that collection with index seed[i] (ids are unique within a   *)
(* collection).                                                            *)
(***************************************************************************)
Seeds ==
  UNION {{s \in [1..n -> Samples] : \A i, j \in 1..n : i # j => s[i] # s[j]} :
         n \in 1..MaxRecs}

\* the collection that holds the samples of pool chosen by seed
collect(pool, seed) == [i \in 1..Len(seed) |-> pool[seed[i]]]

customerSamples ==
  <<[id |-> <<"c", "1">>, name |-> <<"A", "c", "m", "e">>,
     email |-> <<"i", "@", "a", "c", "m", "e">>,
     tier |-> "enterprise", totalRevenue |-> 250000, lastOrderDate |-> 10,
     supportTickets |-> 3, status |-> "active"],
    [id |-> <<"c", "2">>, name |-> <<"T", "e", "c", "h">>, email |-> <<"h", "@", "t">>,
     tier |-> "growth", totalRevenue |-> 45000, lastOrderDate |-> 100,
     supportTickets |-> 1, status |-> "active"],
    [id |-> <<"c", "3">>, name |-> <<"G", "l", "o", "b">>,
     email |-> <<"x", "@", "A", "C", "M", "E">>,
     tier |-> "enterprise", totalRevenue |-> 180000, lastOrderDate |-> 101,
     supportTickets |-> 5, status |-> "at_risk"],
    [id |-> <<"C", "4">>, name |-> <<"a", "c", "m">>, email |-> <<"n", "@", "n">>,
     tier |-> "starter", totalRevenue |-> 0, lastOrderDate |-> 190,
     supportTickets |-> 6, status |-> "churned"]>>

employeeSamples ==
  <<[id |-> <<"e", "1">>, firstName |-> <<"J", "o">>, lastName |-> <<"S", "m">>,
     email |-> <<"j", "@", "c">>, department |-> <<"E", "n", "g">>,
     position |-> <<"S", "W", "E">>, manager |-> Some(<<"e", "2">>),
     salary |-> 100000, status |-> "active", location |-> <<"S", "F">>],
    [id |-> <<"e", "2">>, firstName |-> <<"S", "a">>, lastName |-> <<"J", "o">>,
     email |-> <<"s", "@", "c">>, department |-> <<"E", "n", "g">>,
     position |-> <<"M", "g", "r">>, manager |-> undefined,
     salary |-> 120000, status |-> "active", location |-> <<"N", "Y">>],
    [id |-> <<"e", "3">>, firstName |-> <<"M", "i">>, lastName |-> <<"B", "r">>,
     email |-> <<"m", "@", "j", "o">>, department |-> <<"O", "p", "s">>,
     position |-> <<"S", "W", "E">>, manager |-> Some(<<"e", "9">>),
     salary |-> 80000, status |-> "on_leave", location |-> <<"s", "f">>],
    [id |-> <<"E", "4">>, firstName |-> <<"E", "m">>, lastName |-> <<"D", "a">>,
     email |-> <<"e", "@", "c">>, department |-> <<"e", "n", "g">>,
     position |-> <<"S", "W", "E">>, manager |-> Some(<<"e", "2">>),
     salary |-> 110000, status |-> "inactive", location |-> <<"N", "Y">>]>>

departmentSamples ==
  <<[id |-> <<"d", "1">>, name |-> <<"E", "n", "g">>, manager |-> <<"e", "2">>,
     budget |-> 2500000, headcount |-> 25, location |-> <<"S", "F">>],
    [id |-> <<"d", "2">>, name |-> <<"O", "p", "s">>, manager |-> <<"e", "9">>,
     budget |-> 800000, headcount |-> 8, location |-> <<"N", "Y">>],
    [id |-> <<"d", "3">>, name |-> <<"H", "R">>, manager |-> <<"e", "3">>,
     budget |-> 400000, headcount |-> 5, location |-> <<"S", "F">>],
    [id |-> <<"d", "4">>, name |-> <<"e", "n", "g">>, manager |-> <<"E", "4">>,
     budget |-> 600000, headcount |-> 7, location |-> <<"N", "Y">>]>>

timeOffRequestSamples ==
  <<[id |-> <<"t", "1">>, employeeId |-> <<"e", "1">>, type |-> "vacation",
     days |-> 5, status |-> "approved", reason |-> Some("Family vacation")],
    [id |-> <<"t", "2">>, employeeId |-> <<"e", "2">>, type |-> "sick",
     days |-> 2, status |-> "approved", reason |-> undefined],
    [id |-> <<"t", "3">>, employeeId |-> <<"e", "3">>, type |-> "vacation",
     days |-> 1, status |-> "pending", reason |-> Some("Personal appointment")],
    [id |-> <<"t", "4">>, employeeId |-> <<"e", "9">>, type |-> "personal",
     days |-> 3, status |-> "denied", reason |-> undefined]>>

\* overallRating is in tenths of a star
performanceReviewSamples ==
  <<[id |-> <<"r", "1">>, employeeId |-> <<"e", "1">>, reviewerId |-> <<"e", "2">>,
     period |-> "2024-Q2", overallRating |-> 45, status |-> "completed"],
    [id |-> <<"r", "2">>, employeeId |-> <<"e", "2">>, reviewerId |-> <<"e", "9">>,
     period |-> "2024-Q2", overallRating |-> 40, status |-> "completed"],
    [id |-> <<"r", "3">>, employeeId |-> <<"e", "3">>, reviewerId |-> <<"e", "1">>,
     period |-> "2024-Q1", overallRating |-> 38, status |-> "scheduled"],
    [id |-> <<"r", "4">>, employeeId |-> <<"e", "9">>, reviewerId |-> <<"e", "1">>,
     period |-> "2024-Q1", overallRating |-> 20, status |-> "in_progress"]>>

projectSamples ==
  <<[id |-> <<"p", "1">>, name |-> <<"R", "e", "l">>, status |-> "Active", priority |-> "P0",
     owner |-> "eng_001", team |-> <<"S", "e", "a">>, progress |-> 65, budget |-> 500000,
     risks |-> <<"ML model performance">>, dependencies |-> <<"proj_005">>],
    [id |-> <<"p", "2">>, name |-> <<"K", "8", "s">>, status |-> "Active", priority |-> "P1",
     owner |-> "eng_002", team |-> <<"S", "R", "E">>, progress |-> 40, budget |-> 800000,
     risks |-> <<"Service disruption">>, dependencies |-> <<>>],
    [id |-> <<"p", "3">>, name |-> <<"S", "D", "K">>, status |-> "Blocked", priority |-> "P1",
     owner |-> "eng_001", team |-> <<"s", "e", "a">>, progress |-> 25, budget |-> 400000,
     risks |-> <<>>, dependencies |-> <<"proj_007">>],
    [id |-> <<"p", "4">>, name |-> <<"A", "P", "I">>, status |-> "Completed", priority |-> "P0",
     owner |-> "eng_005", team |-> <<"M", "o", "b">>, progress |-> 100, budget |-> 750000,
     risks |-> <<>>, dependencies |-> <<>>]>>

\* uptime is in hundredths of a percent
repositorySamples ==
  <<[id |-> <<"r", "1">>, name |-> <<"s", "v", "c">>, type |-> <<"S", "v">>,
     language |-> <<"P", "y">>, team |-> <<"S", "e", "a">>, linesOfCode |-> 125000,
     techDebtScore |-> 6, securityVulns |-> [critical |-> 0, high |-> 2, medium |-> 8, low |-> 15],
     testCoverage |-> 87, uptime |-> 9995],
    [id |-> <<"r", "2">>, name |-> <<"k", "8", "s">>, type |-> <<"L", "i">>,
     language |-> <<"G", "o">>, team |-> <<"S", "R", "E">>, linesOfCode |-> 85000,
     techDebtScore |-> 4, securityVulns |-> [critical |-> 0, high |-> 0, medium |-> 3, low |-> 7],
     testCoverage |-> 92, uptime |-> 9999],
    [id |-> <<"r", "3">>, name |-> <<"S", "D", "K">>, type |-> <<"s", "v">>,
     language |-> <<"p", "y">>, team |-> <<"s", "e", "a">>, linesOfCode |-> 95000,
     techDebtScore |-> 6, securityVulns |-> [critical |-> 1, high |-> 1, medium |-> 12, low |-> 20],
     testCoverage |-> 87, uptime |-> 9990],
    [id |-> <<"r", "4">>, name |-> <<"a", "p", "i">>, type |-> <<"S", "v">>,
     language |-> <<"G", "o">>, team |-> <<"M", "o", "b">>, linesOfCode |-> 180000,
     techDebtScore |-> 3, securityVulns |-> [critical |-> 0, high |-> 0, medium |-> 2, low |-> 5],
     testCoverage |-> 94, uptime |-> 9999]>>

deploymentSamples ==
  <<[id |-> <<"d", "1">>, repository |-> <<"s", "v", "c">>, environment |-> "production",
     deployer |-> "eng_001", duration |-> 12, status |-> "success", rollbackReason |-> undefined],
    [id |-> <<"d", "2">>, repository |-> <<"a", "p", "i">>, environment |-> "production",
     deployer |-> "eng_005", duration |-> 8, status |-> "success", rollbackReason |-> undefined],
    [id |-> <<"d", "3">>, repository |-> <<"S", "D", "K">>, environment |-> "staging",
     deployer |-> "eng_003", duration |-> 25, status |-> "failed",
     rollbackReason |-> Some("Critical UI bug discovered")],
    [id |-> <<"d", "4">>, repository |-> <<"S", "V", "C">>, environment |-> "canary",
     deployer |-> "eng_002", duration |-> 35, status |-> "rolled_back",
     rollbackReason |-> Some("Increased latency")]>>

\* createdAt and resolvedAt are in minutes
incidentSamples ==
  <<[id |-> <<"i", "1">>, severity |-> "SEV1", status |-> "Resolved", service |-> <<"s", "v", "c">>,
     assignee |-> "eng_001", createdAt |-> 0, resolvedAt |-> Some(135), mttr |-> 135],
    [id |-> <<"i", "2">>, severity |-> "SEV0", status |-> "Post-mortem", service |-> <<"S", "D", "K">>,
     assignee |-> "eng_003", createdAt |-> 10, resolvedAt |-> Some(205), mttr |-> 195],
    [id |-> <<"i", "3">>, severity |-> "SEV2", status |-> "Investigating", service |-> <<"a", "p", "i">>,
     assignee |-> "eng_001", createdAt |-> 20, resolvedAt |-> undefined, mttr |-> 0],
    [id |-> <<"i", "4">>, severity |-> "SEV2", status |-> "Mitigating", service |-> <<"S", "V", "C">>,
     assignee |-> "eng_005", createdAt |-> 30, resolvedAt |-> undefined, mttr |-> 0]>>

\* reviewTime is in tenths of an hour
codeReviewSamples ==
  <<[id |-> <<"c", "1">>, repository |-> <<"s", "v", "c">>, author |-> "eng_001",
     reviewers |-> <<"eng_100", "eng_005">>, linesChanged |-> 245, mergedAt |-> Some(100),
     status |-> "Merged", reviewTime |-> 65],
    [id |-> <<"c", "2">>, repository |-> <<"S", "D", "K">>, author |-> "eng_003",
     reviewers |-> <<"eng_001">>, linesChanged |-> 89, mergedAt |-> Some(200),
     status |-> "Merged", reviewTime |-> 185],
    [id |-> <<"c", "3">>, repository |-> <<"a", "p", "i">>, author |-> "eng_001",
     reviewers |-> <<"eng_005", "eng_100">>, linesChanged |-> 512, mergedAt |-> undefined,
     status |-> "Open", reviewTime |-> 0],
    [id |-> <<"c", "4">>, repository |-> <<"S", "V", "C">>, author |-> "eng_002",
     reviewers |-> <<>>, linesChanged |-> 34, mergedAt |-> undefined,
     status |-> "Changes Requested", reviewTime |-> 42]>>

engineerSamples ==
  <<[id |-> <<"e", "1">>, name |-> <<"A", "l">>, email |-> <<"a", "@", "c">>,
     level |-> "L6", role |-> <<"S", "W", "E">>, team |-> <<"S", "e", "a">>,
     location |-> <<"S", "F">>, skills |-> <<<<"P", "y">>, <<"G", "o">>>>,
     manager |-> Some(<<"e", "2">>)],
    [id |-> <<"e", "2">>, name |-> <<"S", "a">>, email |-> <<"s", "@", "c">>,
     level |-> "L7", role |-> <<"S", "R", "E">>, team |-> <<"S", "R", "E">>,
     location |-> <<"N", "Y">>, skills |-> <<<<"G", "o">>, <<"K", "8", "s">>>>,
     manager |-> undefined],
    [id |-> <<"e", "3">>, name |-> <<"M", "a">>, email |-> <<"m", "@", "a", "l">>,
     level |-> "L6", role |-> <<"s", "w", "e">>, team |-> <<"s", "e", "a">>,
     location |-> <<"s", "f">>, skills |-> <<>>,
     manager |-> Some(<<"e", "9">>)],
    [id |-> <<"E", "4">>, name |-> <<"a", "L">>, email |-> <<"p", "@", "c">>,
     level |-> "L5", role |-> <<"S", "W", "E">>, team |-> <<"M", "o", "b">>,
     location |-> <<"N", "Y">>, skills |-> <<<<"g", "o">>, <<"J", "a", "v", "a">>>>,
     manager |-> Some(<<"e", "2">>)]>>

teamSamples ==
  <<[id |-> <<"t", "1">>, name |-> <<"S", "e", "a">>, type |-> "Platform",
     manager |-> <<"e", "2">>, engineers |-> <<<<"e", "1">>, <<"e", "9">>, <<"e", "2">>>>,
     budget |-> 2500000],
    [id |-> <<"t", "2">>, name |-> <<"S", "R", "E">>, type |-> "Infrastructure",
     manager |-> <<"e", "9">>, engineers |-> <<<<"e", "2">>>>, budget |-> 3000000],
    [id |-> <<"t", "3">>, name |-> <<"M", "o", "b">>, type |-> "Platform",
     manager |-> <<"e", "3">>, engineers |-> <<<<"E", "4">>, <<"e", "3">>>>, budget |-> 2000000],
    [id |-> <<"t", "4">>, name |-> <<"s", "e", "a">>, type |-> "Data",
     manager |-> <<"e", "1">>, engineers |-> <<>>, budget |-> 2800000]>>

oncallRotationSamples ==
  <<[id |-> <<"o", "1">>, team |-> <<"S", "e", "a">>, service |-> <<"s", "v", "c">>,
     engineer |-> <<"e", "1">>, escalationPath |-> <<<<"e", "2">>, <<"e", "9">>>>],
    [id |-> <<"o", "2">>, team |-> <<"S", "R", "E">>, service |-> <<"k", "8", "s">>,
     engineer |-> <<"e", "2">>, escalationPath |-> <<<<"e", "1">>>>],
    [id |-> <<"o", "3">>, team |-> <<"s", "e", "a">>, service |-> <<"S", "V", "C">>,
     engineer |-> <<"e", "9">>, escalationPath |-> <<>>],
    [id |-> <<"o", "4">>, team |-> <<"M", "o", "b">>, service |-> <<"a", "p", "i">>,
     engineer |-> <<"e", "3">>, escalationPath |-> <<<<"e", "3">>, <<"E", "4">>>>]>>

\* amounts in dollars, payroll amounts in cents
orderSamples ==
  <<[id |-> <<"o", "1">>, customerId |-> <<"c", "1">>, amount |-> 25000, status |-> "completed"],
    [id |-> <<"o", "2">>, customerId |-> <<"c", "2">>, amount |-> 8500, status |-> "completed"],
    [id |-> <<"o", "3">>, customerId |-> <<"c", "1">>, amount |-> 15000, status |-> "completed"],
    [id |-> <<"o", "4">>, customerId |-> <<"c", "9">>, amount |-> 100, status |-> "pending"]>>

supportTicketSamples ==
  <<[id |-> <<"k", "1">>, customerId |-> <<"c", "1">>, priority |-> "high", status |-> "open"],
    [id |-> <<"k", "2">>, customerId |-> <<"c", "3">>, priority |-> "medium",
     status |-> "resolved"],
    [id |-> <<"k", "3">>, customerId |-> <<"c", "3">>, priority |-> "low", status |-> "open"],
    [id |-> <<"k", "4">>, customerId |-> <<"c", "9">>, priority |-> "low", status |-> "closed"]>>

payrollRecordSamples ==
  <<[id |-> <<"y", "1">>, employeeId |-> <<"e", "1">>, grossPay |-> 461538, netPay |-> 320050,
     deductions |-> [tax |-> 120000, health |-> 15000, retirement |-> 26488]],
    [id |-> <<"y", "2">>, employeeId |-> <<"e", "2">>, grossPay |-> 326923, netPay |-> 240075,
     deductions |-> [tax |-> 75000, health |-> 11848, retirement |-> 0]],
    [id |-> <<"y", "3">>, employeeId |-> <<"e", "1">>, grossPay |-> 461538, netPay |-> 320050,
     deductions |-> [tax |-> 120000, health |-> 15000, retirement |-> 26488]],
    [id |-> <<"y", "4">>, employeeId |-> <<"e", "9">>, grossPay |-> 100000, netPay |-> 80000,
     deductions |-> [tax |-> 20000, health |-> 0, retirement |-> 0]]>>

customerDatabase(seed) ==
  [customers |-> collect(customerSamples, seed),
   orders |-> collect(orderSamples, seed),
   supportTickets |-> collect(supportTicketSamples, seed)]

hrmDatabase(seed) ==
  [employees |-> collect(employeeSamples, seed),
   departments |-> collect(departmentSamples, seed),
   payrollRecords |-> collect(payrollRecordSamples, seed),
   timeOffRequests |-> collect(timeOffRequestSamples, seed),
   performanceReviews |-> collect(performanceReviewSamples, seed),
   projects |-> collect(projectSamples, seed),
   repositories |-> collect(repositorySamples, seed),
   deployments |-> collect(deploymentSamples, seed),
   incidents |-> collect(incidentSamples, seed),
   codeReviews |-> collect(codeReviewSamples, seed)]

engineeringDatabase(seed) ==
  [engineers |-> collect(engineerSamples, seed),
   teams |-> collect(teamSamples, seed),
   projects |-> collect(projectSamples, seed),
   repositories |-> collect(repositorySamples, seed),
   deployments |-> collect(deploymentSamples, seed),
   incidents |-> collect(incidentSamples, seed),
   codeReviews |-> collect(codeReviewSamples, seed),
   oncallRotations |-> collect(oncallRotationSamples, seed)]

(***************************************************************************)
(* Outcome of a tool implementation: a returned result or a thrown error   *)
(***************************************************************************)
Return(report) == [type |-> "return", value |-> report]

Throw(message) == [type |-> "throw", value |-> message]

\* reading a property of `args` when the request carries no arguments
TypeError == <<"Cannot read properties of undefined">>

(***************************************************************************)
(* Customer data server: tools                                             *)
(***************************************************************************)
\* faulty variant: the query is looked for in the name only
searchCustomersQueryNameOnly(customer, args) ==
  includes(toLowerCase(customer.name), toLowerCase(args.query[1]))

searchCustomersQuery(customer, args) ==
  LET query == toLowerCase(args.query[1])
  IN  \/ includes(toLowerCase(customer.name), query)
      \/ includes(toLowerCase(customer.email), query)
      \/ includes(toLowerCase(customer.id), query)

\* faulty variant: the tier criterion compared with the status field
searchCustomersTierReadsStatus(customer, args) == customer.status = args.tier[1]

searchCustomersTier(customer, args) == customer.tier = args.tier[1]

searchCustomersStatus(customer, args) == customer.status = args.status[1]

\* faulty variant: the threshold compared with > instead of >=
searchCustomersMinRevenueExclusive(customer, args) ==
  customer.totalRevenue > args.minRevenue[1]

searchCustomersMinRevenue(customer, args) == customer.totalRevenue >= args.minRevenue[1]

\* faulty variant: the matches by name, by email and by id are concatenated
searchCustomersConcatenatesMatches(database, arguments) ==
  IF arguments = undefined THEN Throw(TypeError)
  ELSE
    LET args == arguments[1]
        query == toLowerCase(args.query[1])
        r0 == database.customers
        r1 == IF TruthyText(args.query)
              THEN filter(r0, LAMBDA c : includes(toLowerCase(c.name), query))
                   \o filter(r0, LAMBDA c : includes(toLowerCase(c.email), query))
                   \o filter(r0, LAMBDA c : includes(toLowerCase(c.id), query))
              ELSE r0
        r2 == IF TruthyString(args.tier)
              THEN filter(r1, LAMBDA c : searchCustomersTier(c, args)) ELSE r1
        r3 == IF TruthyString(args.status)
              THEN filter(r2, LAMBDA c : searchCustomersStatus(c, args)) ELSE r2
        results == IF TruthyNumber(args.minRevenue)
                   THEN filter(r3, LAMBDA c : searchCustomersMinRevenue(c, args)) ELSE r3
    IN  Return([length |-> Len(results), results |-> results])

\* faulty variant: the criteria are chained with else-if, so only the first one supplied applies
searchCustomersFirstCriterionOnly(database, arguments) ==
  IF arguments = undefined THEN Throw(TypeError)
  ELSE
    LET args == arguments[1]
        r0 == database.customers
        results ==
          IF TruthyText(args.query)
          THEN filter(r0, LAMBDA c : searchCustomersQuery(c, args))
          ELSE IF TruthyString(args.tier)
          THEN filter(r0, LAMBDA c : searchCustomersTier(c, args))
          ELSE IF TruthyString(args.status)
          THEN filter(r0, LAMBDA c : searchCustomersStatus(c, args))
          ELSE IF TruthyNumber(args.minRevenue)
          THEN filter(r0, LAMBDA c : searchCustomersMinRevenue(c, args))
          ELSE r0
    IN  Return([length |-> Len(results), results |-> results])

searchCustomers(database, arguments) ==
  IF arguments = undefined THEN Throw(TypeError)
  ELSE
    LET args == arguments[1]
        r0 == database.customers
        r1 == IF TruthyText(args.query)
              THEN filter(r0, LAMBDA c : searchCustomersQuery(c, args)) ELSE r0
        r2 == IF TruthyString(args.tier)
              THEN filter(r1, LAMBDA c : searchCustomersTier(c, args)) ELSE r1
        r3 == IF TruthyString(args.status)
              THEN filter(r2, LAMBDA c : searchCustomersStatus(c, args)) ELSE r2
        results == IF TruthyNumber(args.minRevenue)
                   THEN filter(r3, LAMBDA c : searchCustomersMinRevenue(c, args)) ELSE r3
    IN  Return([length |-> Len(results), results |-> results])

\* `${args.customerId}` in a message: the id, or "undefined" when it is not supplied
idText(id) ==
  IF id = undefined THEN <<"u", "n", "d", "e", "f", "i", "n", "e", "d">> ELSE id[1]

getCustomerDetails(database, arguments) ==
  IF arguments = undefined THEN Throw(TypeError)
  ELSE
    LET args == arguments[1]
        matching == IF args.customerId = undefined THEN <<>>
                    ELSE filter(database.customers, LAMBDA c : c.id = args.customerId[1])
    IN  IF matching = <<>>
        THEN Throw(<<"Customer not found: ", idText(args.customerId)>>)
        ELSE
          LET customer == matching[1]
          IN  Return([customer |-> customer,
                      orders |-> filter(database.orders,
                                        LAMBDA o : o.customerId = args.customerId[1]),
                      tickets |-> filter(database.supportTickets,
                                         LAMBDA t : t.customerId = args.customerId[1])])

\* const daysThreshold = args.daysThreshold || 90
DefaultDaysThreshold == 90

\* customer.supportTickets > 5
TicketLimit == 5

\* Math.floor((today - lastOrder) / one day), both as day numbers
daysSince(customer) == today - customer.lastOrderDate

\* faulty variant: a stored status of at_risk makes the customer at risk
analyzeCustomerByStatus(customer, daysThreshold) ==
  [customer |-> customer,
   daysSinceLastOrder |-> daysSince(customer),
   isAtRisk |-> \/ daysSince(customer) > daysThreshold
                \/ customer.supportTickets > TicketLimit
                \/ customer.status = "at_risk",
   riskFactors |->
     (IF daysSince(customer) > daysThreshold THEN <<"days since last order">> ELSE <<>>)
     \o (IF customer.supportTickets > TicketLimit THEN <<"open support tickets">> ELSE <<>>)
     \o (IF customer.status = "at_risk" THEN <<"Manually marked as at-risk">> ELSE <<>>)]

\* the entry of one customer in the analysis
analyzeCustomer(customer, daysThreshold) ==
  [customer |-> customer,
   daysSinceLastOrder |-> daysSince(customer),
   isAtRisk |-> \/ daysSince(customer) > daysThreshold
                \/ customer.supportTickets > TicketLimit,
   riskFactors |->
     (IF daysSince(customer) > daysThreshold THEN <<"days since last order">> ELSE <<>>)
     \o (IF customer.supportTickets > TicketLimit THEN <<"open support tickets">> ELSE <<>>)
     \o (IF customer.status = "at_risk" THEN <<"Manually marked as at-risk">> ELSE <<>>)]

analyzeCustomerHealth(database, arguments) ==
  IF arguments = undefined THEN Throw(TypeError)
  ELSE
    LET args == arguments[1]
        daysThreshold == IF TruthyNumber(args.daysThreshold) THEN args.daysThreshold[1]
                         ELSE DefaultDaysThreshold
        analysis == map(database.customers, LAMBDA c : analyzeCustomer(c, daysThreshold))
    IN  Return([healthyCustomers |-> Len(filter(analysis, LAMBDA c : ~c.isAtRisk)),
                atRiskCustomers |-> filter(analysis, LAMBDA c : c.isAtRisk),
                daysThreshold |-> daysThreshold])

\* the tool reads no field of args
getRevenueAnalytics(database, arguments) ==
  LET totalRevenue == sumOf(database.customers, LAMBDA c : c.totalRevenue)
      enterpriseRevenue == sumOf(filter(database.customers, LAMBDA c : c.tier = "enterprise"),
                                 LAMBDA c : c.totalRevenue)
      tiers == countBy(database.customers, LAMBDA c : c.tier)
  IN  Return([totalRevenue |-> totalRevenue,
              avgRevenuePerCustomer |->
                round(divide(totalRevenue, Len(database.customers))),
              enterpriseRevenue |-> enterpriseRevenue,
              enterpriseShare |-> round(divide(enterpriseRevenue * 100, totalRevenue)),
              tierBreakdown |->
                map(tiers, LAMBDA t :
                      [key |-> t.key,
                       revenue |-> sumOf(filter(database.customers,
                                                LAMBDA c : c.tier = t.key),
                                         LAMBDA c : c.totalRevenue)])])

(***************************************************************************)
(* HRM server: tools                                                       *)
(***************************************************************************)
searchEmployeesQuery(emp, args) ==
  LET query == toLowerCase(args.query[1])
  IN  \/ includes(toLowerCase(emp.firstName), query)
      \/ includes(toLowerCase(emp.lastName), query)
      \/ includes(toLowerCase(emp.email), query)
      \/ includes(toLowerCase(emp.id), query)

searchEmployeesDepartment(emp, args) ==
  toLowerCase(emp.department) = toLowerCase(args.department[1])

\* faulty variant: the criterion is not lower-cased
searchEmployeesPositionCaseSensitive(emp, args) ==
  includes(toLowerCase(emp.position), args.position[1])

searchEmployeesPosition(emp, args) ==
  includes(toLowerCase(emp.position), toLowerCase(args.position[1]))

searchEmployeesStatus(emp, args) == emp.status = args.status[1]

searchEmployeesLocation(emp, args) ==
  includes(toLowerCase(emp.location), toLowerCase(args.location[1]))

\* faulty variant: the status criterion is applied whenever it is supplied
searchEmployeesStatusWhenSupplied(database, arguments) ==
  IF arguments = undefined THEN Throw(TypeError)
  ELSE
    LET args == arguments[1]
        r0 == database.employees
        r1 == IF TruthyText(args.query)
              THEN filter(r0, LAMBDA e : searchEmployeesQuery(e, args)) ELSE r0
        r2 == IF TruthyText(args.department)
              THEN filter(r1, LAMBDA e : searchEmployeesDepartment(e, args)) ELSE r1
        r3 == IF TruthyText(args.position)
              THEN filter(r2, LAMBDA e : searchEmployeesPosition(e, args)) ELSE r2
        r4 == IF args.status # undefined
              THEN filter(r3, LAMBDA e : searchEmployeesStatus(e, args)) ELSE r3
        results == IF TruthyText(args.location)
                   THEN filter(r4, LAMBDA e : searchEmployeesLocation(e, args)) ELSE r4
    IN  Return([length |-> Len(results), results |-> results])

searchEmployees(database, arguments) ==
  IF arguments = undefined THEN Throw(TypeError)
  ELSE
    LET args == arguments[1]
        r0 == database.employees
        r1 == IF TruthyText(args.query)
              THEN filter(r0, LAMBDA e : searchEmployeesQuery(e, args)) ELSE r0
        r2 == IF TruthyText(args.department)
              THEN filter(r1, LAMBDA e : searchEmployeesDepartment(e, args)) ELSE r1
        r3 == IF TruthyText(args.position)
              THEN filter(r2, LAMBDA e : searchEmployeesPosition(e, args)) ELSE r2
        r4 == IF TruthyString(args.status)
              THEN filter(r3, LAMBDA e : searchEmployeesStatus(e, args)) ELSE r3
        results == IF TruthyText(args.location)
                   THEN filter(r4, LAMBDA e : searchEmployeesLocation(e, args)) ELSE r4
    IN  Return([length |-> Len(results), results |-> results])

\* faulty variant: an id that matches no employee gets an empty report
getEmployeeDetailsEmptyWhenMissing(database, arguments) ==
  IF arguments = undefined THEN Throw(TypeError)
  ELSE
    LET args == arguments[1]
        matching == IF args.employeeId = undefined THEN <<>>
                    ELSE filter(database.employees, LAMBDA e : e.id = args.employeeId[1])
    IN  IF matching = <<>>
        THEN Return(<<>>)
        ELSE
          LET employee == matching[1]
          IN  Return([employee |-> employee,
                      manager |-> IF employee.manager = undefined \/ employee.manager[1] = <<>>
                                  THEN <<"None">> ELSE employee.manager[1],
                      timeOffRequests |-> filter(database.timeOffRequests,
                                                 LAMBDA r : r.employeeId = args.employeeId[1]),
                      performanceReviews |-> filter(database.performanceReviews,
                                                    LAMBDA r : r.employeeId = args.employeeId[1]),
                      payrollRecords |-> filter(database.payrollRecords,
                                                LAMBDA r : r.employeeId = args.employeeId[1])])

getEmployeeDetails(database, arguments) ==
  IF arguments = undefined THEN Throw(TypeError)
  ELSE
    LET args == arguments[1]
        matching == IF args.employeeId = undefined THEN <<>>
                    ELSE filter(database.employees, LAMBDA e : e.id = args.employeeId[1])
    IN  IF matching = <<>>
        THEN Throw(<<"Employee not found: ", idText(args.employeeId)>>)
        ELSE
          LET employee == matching[1]
          IN  Return([employee |-> employee,
                      manager |-> IF employee.manager = undefined \/ employee.manager[1] = <<>>
                                  THEN <<"None">> ELSE employee.manager[1],
                      timeOffRequests |-> filter(database.timeOffRequests,
                                                 LAMBDA r : r.employeeId = args.employeeId[1]),
                      performanceReviews |-> filter(database.performanceReviews,
                                                    LAMBDA r : r.employeeId = args.employeeId[1]),
                      payrollRecords |-> filter(database.payrollRecords,
                                                LAMBDA r : r.employeeId = args.employeeId[1])])

\* `${employee?.firstName} ${employee?.lastName}` for the employee with this id
employeeName(database, id) ==
  LET employee == findById(database.employees, id)
  IN  IF employee = undefined THEN <<"undefined", "undefined">>
      ELSE <<employee[1].firstName, employee[1].lastName>>

\* faulty variant: a manager id that resolves to no employee is an error
getDepartmentInfoRequiresManager(database, arguments) ==
  IF arguments = undefined \/ arguments[1].departmentName = undefined THEN Throw(TypeError)
  ELSE
    LET args == arguments[1]
        matching == filter(database.departments,
                           LAMBDA d : toLowerCase(d.name) = toLowerCase(args.departmentName[1]))
    IN  IF matching = <<>>
        THEN Throw(<<"Department not found: ", args.departmentName[1]>>)
        ELSE
          LET department == matching[1]
              employees == filter(database.employees, LAMBDA e : e.department = department.name)
              avgSalary == divide(sumOf(employees, LAMBDA e : e.salary), Len(employees))
              manager == findById(database.employees, department.manager)
          IN  IF manager = undefined
              THEN Throw(<<"Employee not found: ", department.manager>>)
              ELSE Return([department |-> department.name,
                           manager |-> <<manager[1].firstName, manager[1].lastName>>,
                           budget |-> department.budget,
                           headcount |-> <<Len(employees), department.headcount>>,
                           averageSalary |-> round(avgSalary),
                           totalPayroll |-> sumOf(employees, LAMBDA e : e.salary),
                           employees |-> employees])

getDepartmentInfo(database, arguments) ==
  IF arguments = undefined \/ arguments[1].departmentName = undefined THEN Throw(TypeError)
  ELSE
    LET args == arguments[1]
        matching == filter(database.departments,
                           LAMBDA d : toLowerCase(d.name) = toLowerCase(args.departmentName[1]))
    IN  IF matching = <<>>
        THEN Throw(<<"Department not found: ", args.departmentName[1]>>)
        ELSE
          LET department == matching[1]
              employees == filter(database.employees, LAMBDA e : e.department = department.name)
              avgSalary == divide(sumOf(employees, LAMBDA e : e.salary), Len(employees))
              manager == findById(database.employees, department.manager)
          IN  Return([department |-> department.name,
                      manager |-> IF manager # undefined
                                  THEN <<manager[1].firstName, manager[1].lastName>>
                                  ELSE <<"Not assigned">>,
                      budget |-> department.budget,
                      headcount |-> <<Len(employees), department.headcount>>,
                      averageSalary |-> round(avgSalary),
                      totalPayroll |-> sumOf(employees, LAMBDA e : e.salary),
                      employees |-> employees])

\* the grouping key chosen by the switch over groupBy
salaryGroupKey(emp, groupBy) ==
  CASE groupBy = "department" -> emp.department
    [] groupBy = "position" -> emp.position
    [] groupBy = "location" -> emp.location
    [] OTHER -> emp.department

\* faulty variant: the average is truncated instead of rounded
salaryGroupStatisticsTruncated(group) ==
  LET salaries == map(group.items, LAMBDA e : e.salary)
      total == sumOf(group.items, LAMBDA e : e.salary)
  IN  [group |-> group.key, count |-> Len(group.items),
       averageSalary |-> Number(total \div Len(salaries), 1),
       minSalary |-> min(salaries), maxSalary |-> max(salaries), totalPayroll |-> total]

\* one entry of `analysis` for the group [key, items]
salaryGroupStatistics(group) ==
  LET salaries == map(group.items, LAMBDA e : e.salary)
      total == sumOf(group.items, LAMBDA e : e.salary)
      avg == divide(total, Len(salaries))
  IN  [group |-> group.key, count |-> Len(group.items), averageSalary |-> round(avg),
       minSalary |-> min(salaries), maxSalary |-> max(salaries), totalPayroll |-> total]

\* faulty variant: the groups are sorted ascending and then reversed, which turns
\* groups of equal average around
getSalaryAnalysisReversed(database, arguments) ==
  IF arguments = undefined THEN Throw(TypeError)
  ELSE
    LET args == arguments[1]
        groupBy == IF TruthyString(args.groupBy) THEN args.groupBy[1] ELSE "department"
        groupedData == groupRecords(database.employees, LAMBDA e : salaryGroupKey(e, groupBy))
        ascending == sort(map(groupedData, salaryGroupStatistics),
                          LAMBDA a, b : a.averageSalary.n - b.averageSalary.n)
        analysis == [i \in DOMAIN ascending |-> ascending[Len(ascending) + 1 - i]]
        totalPayroll == sumOf(database.employees, LAMBDA e : e.salary)
    IN  Return([groupBy |-> groupBy, analysis |-> analysis,
                totalEmployees |-> Len(database.employees),
                companyAverage |-> round(divide(totalPayroll, Len(database.employees))),
                totalCompanyPayroll |-> totalPayroll])

getSalaryAnalysis(database, arguments) ==
  IF arguments = undefined THEN Throw(TypeError)
  ELSE
    LET args == arguments[1]
        groupBy == IF TruthyString(args.groupBy) THEN args.groupBy[1] ELSE "department"
        groupedData == groupRecords(database.employees, LAMBDA e : salaryGroupKey(e, groupBy))
        analysis == sort(map(groupedData, salaryGroupStatistics),
                         LAMBDA a, b : b.averageSalary.n - a.averageSalary.n)
        totalPayroll == sumOf(database.employees, LAMBDA e : e.salary)
    IN  Return([groupBy |-> groupBy, analysis |-> analysis,
                totalEmployees |-> Len(database.employees),
                companyAverage |-> round(divide(totalPayroll, Len(database.employees))),
                totalCompanyPayroll |-> totalPayroll])

\* faulty variant: the first request of a type creates the entry without counting it
timeOffByTypeMissesFirst(requests) ==
  LET acc[i \in 0..Len(requests)] ==
        IF i = 0 THEN <<>>
        ELSE LET prev == acc[i - 1]
                 req == requests[i]
             IN  IF \E j \in DOMAIN prev : prev[j].key = req.type
                 THEN [j \in DOMAIN prev |->
                         IF prev[j].key = req.type
                         THEN [key |-> req.type, count |-> prev[j].count + 1,
                               days |-> prev[j].days + req.days]
                         ELSE prev[j]]
                 ELSE Append(prev, [key |-> req.type, count |-> 0, days |-> req.days])
  IN  acc[Len(requests)]

\* requests.reduce((acc, req) => { acc[req.type].count++; acc[req.type].days += req.days })
timeOffByType(requests) ==
  LET acc[i \in 0..Len(requests)] ==
        IF i = 0 THEN <<>>
        ELSE LET prev == acc[i - 1]
                 req == requests[i]
             IN  IF \E j \in DOMAIN prev : prev[j].key = req.type
                 THEN [j \in DOMAIN prev |->
                         IF prev[j].key = req.type
                         THEN [key |-> req.type, count |-> prev[j].count + 1,
                               days |-> prev[j].days + req.days]
                         ELSE prev[j]]
                 ELSE Append(prev, [key |-> req.type, count |-> 1, days |-> req.days])
  IN  acc[Len(requests)]

getTimeOffSummary(database, arguments) ==
  IF arguments = undefined THEN Throw(TypeError)
  ELSE
    LET args == arguments[1]
        r0 == database.timeOffRequests
        r1 == IF TruthyText(args.employeeId)
              THEN filter(r0, LAMBDA r : r.employeeId = args.employeeId[1]) ELSE r0
        r2 == IF TruthyString(args.status)
              THEN filter(r1, LAMBDA r : r.status = args.status[1]) ELSE r1
        requests == IF TruthyString(args.type)
                    THEN filter(r2, LAMBDA r : r.type = args.type[1]) ELSE r2
    IN  Return([length |-> Len(requests), results |-> requests,
                names |-> map(requests, LAMBDA r : employeeName(database, r.employeeId)),
                summary |-> timeOffByType(requests),
                pending |-> Len(filter(requests, LAMBDA r : r.status = "pending")),
                approved |-> Len(filter(requests, LAMBDA r : r.status = "approved")),
                denied |-> Len(filter(requests, LAMBDA r : r.status = "denied"))])

\* faulty variant: an absent status criterion defaults to "completed"
getPerformanceDashboardDefaultStatus(database, arguments) ==
  IF arguments = undefined THEN Throw(TypeError)
  ELSE
    LET args == arguments[1]
        status == IF TruthyString(args.status) THEN args.status[1] ELSE "completed"
        r0 == database.performanceReviews
        r1 == IF TruthyString(args.period)
              THEN filter(r0, LAMBDA r : r.period = args.period[1]) ELSE r0
        reviews == filter(r1, LAMBDA r : r.status = status)
        avgRating == divide(sumOf(reviews, LAMBDA r : r.overallRating), 10 * Len(reviews))
        ratingDistribution == sort(countBy(reviews, LAMBDA r : r.overallRating \div 10),
                                   LAMBDA a, b : a.key - b.key)
    IN  Return([length |-> Len(reviews), results |-> reviews,
                names |-> map(reviews, LAMBDA r : employeeName(database, r.employeeId)),
                reviewers |-> map(reviews, LAMBDA r : employeeName(database, r.reviewerId)),
                averageRating |-> toFixed(avgRating, 1),
                ratingDistribution |-> ratingDistribution,
                completed |-> Len(filter(reviews, LAMBDA r : r.status = "completed")),
                scheduled |-> Len(filter(reviews, LAMBDA r : r.status = "scheduled")),
                inProgress |-> Len(filter(reviews, LAMBDA r : r.status = "in_progress"))])

getPerformanceDashboard(database, arguments) ==
  IF arguments = undefined THEN Throw(TypeError)
  ELSE
    LET args == arguments[1]
        r0 == database.performanceReviews
        r1 == IF TruthyString(args.period)
              THEN filter(r0, LAMBDA r : r.period = args.period[1]) ELSE r0
        reviews == IF TruthyString(args.status)
                   THEN filter(r1, LAMBDA r : r.status = args.status[1]) ELSE r1
        \* overallRating is in tenths: the sum of the ratings is the sum of tenths / 10
        avgRating == divide(sumOf(reviews, LAMBDA r : r.overallRating), 10 * Len(reviews))
        \* Object.entries lists integer keys in ascending order
        ratingDistribution == sort(countBy(reviews, LAMBDA r : r.overallRating \div 10),
                                   LAMBDA a, b : a.key - b.key)
    IN  Return([length |-> Len(reviews), results |-> reviews,
                names |-> map(reviews, LAMBDA r : employeeName(database, r.employeeId)),
                reviewers |-> map(reviews, LAMBDA r : employeeName(database, r.reviewerId)),
                averageRating |-> toFixed(avgRating, 1),
                ratingDistribution |-> ratingDistribution,
                completed |-> Len(filter(reviews, LAMBDA r : r.status = "completed")),
                scheduled |-> Len(filter(reviews, LAMBDA r : r.status = "scheduled")),
                inProgress |-> Len(filter(reviews, LAMBDA r : r.status = "in_progress"))])

(***************************************************************************)
(* Engineering tools (the HRM server carries the same implementations)     *)
(***************************************************************************)
\* faulty variant: absent arguments stand for no criteria
getProjectStatusDefaultArguments(database, arguments) ==
  IF arguments = undefined
  THEN Return([length |-> Len(database.projects), results |-> database.projects,
               summary |-> countBy(database.projects, LAMBDA p : p.status)])
  ELSE
    LET args == arguments[1]
        p0 == database.projects
        p1 == IF TruthyString(args.status)
              THEN filter(p0, LAMBDA p : p.status = args.status[1]) ELSE p0
        p2 == IF TruthyString(args.priority)
              THEN filter(p1, LAMBDA p : p.priority = args.priority[1]) ELSE p1
        p3 == IF TruthyText(args.team)
              THEN filter(p2, LAMBDA p : includes(toLowerCase(p.team), toLowerCase(args.team[1])))
              ELSE p2
        projects == IF TruthyString(args.owner)
                    THEN filter(p3, LAMBDA p : p.owner = args.owner[1]) ELSE p3
    IN  Return([length |-> Len(projects), results |-> projects,
                summary |-> countBy(projects, LAMBDA p : p.status)])

getProjectStatus(database, arguments) ==
  IF arguments = undefined THEN Throw(TypeError)
  ELSE
    LET args == arguments[1]
        p0 == database.projects
        p1 == IF TruthyString(args.status)
              THEN filter(p0, LAMBDA p : p.status = args.status[1]) ELSE p0
        p2 == IF TruthyString(args.priority)
              THEN filter(p1, LAMBDA p : p.priority = args.priority[1]) ELSE p1
        p3 == IF TruthyText(args.team)
              THEN filter(p2, LAMBDA p : includes(toLowerCase(p.team), toLowerCase(args.team[1])))
              ELSE p2
        projects == IF TruthyString(args.owner)
                    THEN filter(p3, LAMBDA p : p.owner = args.owner[1]) ELSE p3
    IN  Return([length |-> Len(projects), results |-> projects,
                summary |-> countBy(projects, LAMBDA p : p.status)])

\* faulty variant: the coverage ordering puts the best covered first
repositoryCompareCoverageDescending(sortBy, a, b) ==
  CASE sortBy = "techDebt" -> b.techDebtScore - a.techDebtScore
    [] sortBy = "security" -> (b.securityVulns.critical + b.securityVulns.high)
                              - (a.securityVulns.critical + a.securityVulns.high)
    [] sortBy = "coverage" -> b.testCoverage - a.testCoverage
    [] sortBy = "uptime" -> a.uptime - b.uptime
    [] OTHER -> 0

\* the comparator the switch over sortBy passes to repos.sort
repositoryCompare(sortBy, a, b) ==
  CASE sortBy = "techDebt" -> b.techDebtScore - a.techDebtScore
    [] sortBy = "security" -> (b.securityVulns.critical + b.securityVulns.high)
                              - (a.securityVulns.critical + a.securityVulns.high)
    [] sortBy = "coverage" -> a.testCoverage - b.testCoverage
    [] sortBy = "uptime" -> a.uptime - b.uptime
    [] OTHER -> 0

\* faulty variant: an absent sortBy falls back to the techDebt ordering
sortRepositoriesByDefault(repos, sortBy) ==
  IF TruthyString(sortBy) /\ sortBy[1] \in {"security", "coverage", "uptime"}
  THEN sort(repos, LAMBDA a, b : repositoryCompare(sortBy[1], a, b))
  ELSE sort(repos, LAMBDA a, b : repositoryCompare("techDebt", a, b))

\* if (args.sortBy) { switch (args.sortBy) { case ...: repos.sort(...) } }
sortRepositories(repos, sortBy) ==
  IF TruthyString(sortBy) /\ sortBy[1] \in {"techDebt", "security", "coverage", "uptime"}
  THEN sort(repos, LAMBDA a, b : repositoryCompare(sortBy[1], a, b))
  ELSE repos

getRepositoryMetrics(database, arguments) ==
  IF arguments = undefined THEN Throw(TypeError)
  ELSE
    LET args == arguments[1]
        r0 == database.repositories
        r1 == IF TruthyText(args.team)
              THEN filter(r0, LAMBDA r : includes(toLowerCase(r.team), toLowerCase(args.team[1])))
              ELSE r0
        r2 == IF TruthyText(args.type)
              THEN filter(r1, LAMBDA r : toLowerCase(r.type) = toLowerCase(args.type[1])) ELSE r1
        r3 == IF TruthyText(args.language)
              THEN filter(r2, LAMBDA r : toLowerCase(r.language) = toLowerCase(args.language[1]))
              ELSE r2
        repos == sortRepositories(r3, args.sortBy)
    IN  Return([length |-> Len(repos), results |-> repos,
                totalLOC |-> sumOf(repos, LAMBDA r : r.linesOfCode),
                avgTestCoverage |->
                  round(divide(sumOf(repos, LAMBDA r : r.testCoverage), Len(repos))),
                avgTechDebt |->
                  toFixed(divide(sumOf(repos, LAMBDA r : r.techDebtScore), Len(repos)), 1),
                totalCriticalVulns |-> sumOf(repos, LAMBDA r : r.securityVulns.critical),
                \* uptime is in hundredths of a percent
                avgUptime |->
                  toFixed(divide(sumOf(repos, LAMBDA r : r.uptime), 100 * Len(repos)), 2)])

\* deployments.slice(0, 10) in the report
RecentDeployments == 10

\* faulty variant: a field the tool does not read is rejected
getDeploymentDashboardStrict(database, arguments) ==
  IF arguments = undefined THEN Throw(TypeError)
  ELSE IF arguments[1].timeframe # undefined THEN Throw(<<"Unknown argument: ", "timeframe">>)
  ELSE
    LET args == arguments[1]
        d0 == database.deployments
        d1 == IF TruthyText(args.repository)
              THEN filter(d0, LAMBDA d : includes(toLowerCase(d.repository),
                                                  toLowerCase(args.repository[1])))
              ELSE d0
        d2 == IF TruthyString(args.environment)
              THEN filter(d1, LAMBDA d : d.environment = args.environment[1]) ELSE d1
        deployments == IF TruthyString(args.status)
                       THEN filter(d2, LAMBDA d : d.status = args.status[1]) ELSE d2
        successes == Len(filter(deployments, LAMBDA d : d.status = "success"))
        successRate == toFixed(times(divide(successes, Len(deployments)), 100), 1)
        avgDuration == round(divide(sumOf(deployments, LAMBDA d : d.duration), Len(deployments)))
    IN  Return([length |-> Len(deployments), results |-> deployments,
                successRate |-> successRate, avgDuration |-> avgDuration,
                statusBreakdown |-> countBy(deployments, LAMBDA d : d.status),
                recent |-> slice(deployments, RecentDeployments)])

getDeploymentDashboard(database, arguments) ==
  IF arguments = undefined THEN Throw(TypeError)
  ELSE
    LET args == arguments[1]
        d0 == database.deployments
        d1 == IF TruthyText(args.repository)
              THEN filter(d0, LAMBDA d : includes(toLowerCase(d.repository),
                                                  toLowerCase(args.repository[1])))
              ELSE d0
        d2 == IF TruthyString(args.environment)
              THEN filter(d1, LAMBDA d : d.environment = args.environment[1]) ELSE d1
        deployments == IF TruthyString(args.status)
                       THEN filter(d2, LAMBDA d : d.status = args.status[1]) ELSE d2
        successes == Len(filter(deployments, LAMBDA d : d.status = "success"))
        successRate == toFixed(times(divide(successes, Len(deployments)), 100), 1)
        avgDuration == round(divide(sumOf(deployments, LAMBDA d : d.duration), Len(deployments)))
    IN  Return([length |-> Len(deployments), results |-> deployments,
                successRate |-> successRate, avgDuration |-> avgDuration,
                statusBreakdown |-> countBy(deployments, LAMBDA d : d.status),
                recent |-> slice(deployments, RecentDeployments)])

\* faulty variant: the MTTR is averaged over every filtered incident
getIncidentAnalysisAveragesAll(database, arguments) ==
  IF arguments = undefined THEN Throw(TypeError)
  ELSE
    LET args == arguments[1]
        i0 == database.incidents
        i1 == IF TruthyString(args.severity)
              THEN filter(i0, LAMBDA i : i.severity = args.severity[1]) ELSE i0
        i2 == IF TruthyString(args.status)
              THEN filter(i1, LAMBDA i : i.status = args.status[1]) ELSE i1
        i3 == IF TruthyText(args.service)
              THEN filter(i2, LAMBDA i : includes(toLowerCase(i.service),
                                                  toLowerCase(args.service[1])))
              ELSE i2
        incidents == IF TruthyString(args.assignee)
                     THEN filter(i3, LAMBDA i : i.assignee = args.assignee[1]) ELSE i3
        avgMttr == round(divide(sumOf(incidents, LAMBDA i : i.mttr), Len(incidents)))
    IN  Return([length |-> Len(incidents), results |-> incidents, avgMttr |-> avgMttr,
                severityBreakdown |-> countBy(incidents, LAMBDA i : i.severity)])

getIncidentAnalysis(database, arguments) ==
  IF arguments = undefined THEN Throw(TypeError)
  ELSE
    LET args == arguments[1]
        i0 == database.incidents
        i1 == IF TruthyString(args.severity)
              THEN filter(i0, LAMBDA i : i.severity = args.severity[1]) ELSE i0
        i2 == IF TruthyString(args.status)
              THEN filter(i1, LAMBDA i : i.status = args.status[1]) ELSE i1
        i3 == IF TruthyText(args.service)
              THEN filter(i2, LAMBDA i : includes(toLowerCase(i.service),
                                                  toLowerCase(args.service[1])))
              ELSE i2
        incidents == IF TruthyString(args.assignee)
                     THEN filter(i3, LAMBDA i : i.assignee = args.assignee[1]) ELSE i3
        timed == filter(incidents, LAMBDA i : i.mttr > 0)
        avgMttr == round(divide(sumOf(timed, LAMBDA i : i.mttr), Len(timed)))
    IN  Return([length |-> Len(incidents), results |-> incidents, avgMttr |-> avgMttr,
                severityBreakdown |-> countBy(incidents, LAMBDA i : i.severity)])

\* Array.prototype.includes on a list of ids
contains(list, x) == \E i \in DOMAIN list : list[i] = x

getCodeReviewMetrics(database, arguments) ==
  IF arguments = undefined THEN Throw(TypeError)
  ELSE
    LET args == arguments[1]
        c0 == database.codeReviews
        c1 == IF TruthyText(args.repository)
              THEN filter(c0, LAMBDA r : includes(toLowerCase(r.repository),
                                                  toLowerCase(args.repository[1])))
              ELSE c0
        c2 == IF TruthyString(args.author)
              THEN filter(c1, LAMBDA r : r.author = args.author[1]) ELSE c1
        c3 == IF TruthyString(args.reviewer)
              THEN filter(c2, LAMBDA r : contains(r.reviewers, args.reviewer[1])) ELSE c2
        reviews == IF TruthyString(args.status)
                   THEN filter(c3, LAMBDA r : r.status = args.status[1]) ELSE c3
        timed == filter(reviews, LAMBDA r : r.reviewTime > 0)
        \* reviewTime is in tenths of an hour
        avgReviewTime == divide(sumOf(timed, LAMBDA r : r.reviewTime), 10 * Len(timed))
        avgLinesChanged == round(divide(sumOf(reviews, LAMBDA r : r.linesChanged), Len(reviews)))
    IN  Return([length |-> Len(reviews), results |-> reviews,
                avgReviewTime |-> toFixed(avgReviewTime, 1),
                avgLinesChanged |-> avgLinesChanged,
                statusBreakdown |-> countBy(reviews, LAMBDA r : r.status)])

(***************************************************************************)
(* Engineering server: its own tools                                       *)
(***************************************************************************)
searchEngineersQuery(eng, args) ==
  LET query == toLowerCase(args.query[1])
  IN  \/ includes(toLowerCase(eng.name), query)
      \/ includes(toLowerCase(eng.email), query)
      \/ includes(toLowerCase(eng.id), query)

searchEngineersTeam(eng, args) == includes(toLowerCase(eng.team), toLowerCase(args.team[1]))

searchEngineersRole(eng, args) == toLowerCase(eng.role) = toLowerCase(args.role[1])

searchEngineersLevel(eng, args) == eng.level = args.level[1]

searchEngineersLocation(eng, args) ==
  includes(toLowerCase(eng.location), toLowerCase(args.location[1]))

\* faulty variant: the criterion has to be a whole skill, in the same letter case
searchEngineersSkillExact(eng, args) ==
  \E i \in DOMAIN eng.skills : eng.skills[i] = args.skill[1]

searchEngineersSkill(eng, args) ==
  \E i \in DOMAIN eng.skills :
    includes(toLowerCase(eng.skills[i]), toLowerCase(args.skill[1]))

searchEngineers(database, arguments) ==
  IF arguments = undefined THEN Throw(TypeError)
  ELSE
    LET args == arguments[1]
        r0 == database.engineers
        r1 == IF TruthyText(args.query)
              THEN filter(r0, LAMBDA e : searchEngineersQuery(e, args)) ELSE r0
        r2 == IF TruthyText(args.team)
              THEN filter(r1, LAMBDA e : searchEngineersTeam(e, args)) ELSE r1
        r3 == IF TruthyText(args.role)
              THEN filter(r2, LAMBDA e : searchEngineersRole(e, args)) ELSE r2
        r4 == IF TruthyString(args.level)
              THEN filter(r3, LAMBDA e : searchEngineersLevel(e, args)) ELSE r3
        r5 == IF TruthyText(args.location)
              THEN filter(r4, LAMBDA e : searchEngineersLocation(e, args)) ELSE r4
        results == IF TruthyText(args.skill)
                   THEN filter(r5, LAMBDA e : searchEngineersSkill(e, args)) ELSE r5
    IN  Return([length |-> Len(results), results |-> results])

\* `${engineer?.name || id}` for the engineer with this id
engineerNameOrId(database, id) ==
  LET engineer == findById(database.engineers, id)
  IN  IF engineer # undefined /\ engineer[1].name # <<>> THEN engineer[1].name ELSE id

getOncallSchedule(database, arguments) ==
  IF arguments = undefined THEN Throw(TypeError)
  ELSE
    LET args == arguments[1]
        o0 == database.oncallRotations
        o1 == IF TruthyText(args.team)
              THEN filter(o0, LAMBDA r : includes(toLowerCase(r.team), toLowerCase(args.team[1])))
              ELSE o0
        o2 == IF TruthyText(args.service)
              THEN filter(o1, LAMBDA r : includes(toLowerCase(r.service),
                                                  toLowerCase(args.service[1])))
              ELSE o1
        rotations == IF TruthyText(args.engineer)
                     THEN filter(o2, LAMBDA r : r.engineer = args.engineer[1]) ELSE o2
    IN  Return([length |-> Len(rotations), results |-> rotations,
                engineers |-> map(rotations, LAMBDA r : engineerNameOrId(database, r.engineer)),
                escalation |-> map(rotations, LAMBDA r :
                                 map(r.escalationPath, LAMBDA id : engineerNameOrId(database, id)))])

\* find(e => e.id === team.manager)?.name || 'Unknown'
managerName(database, id) ==
  LET engineer == findById(database.engineers, id)
  IN  IF engineer # undefined /\ engineer[1].name # <<>> THEN engineer[1].name
      ELSE <<"Unknown">>

\* the figures of one team in the report
teamHealth(database, team) ==
  LET teamRepos == filter(database.repositories, LAMBDA r : r.team = team.name)
      teamProjects == filter(database.projects, LAMBDA p : p.team = team.name)
      teamIncidents == filter(database.incidents,
                              LAMBDA i : \E k \in DOMAIN teamRepos : teamRepos[k].name = i.service)
  IN  [team |-> team.name,
       manager |-> managerName(database, team.manager),
       engineers |-> Len(team.engineers),
       budget |-> team.budget,
       activeProjects |-> Len(filter(teamProjects, LAMBDA p : p.status = "Active")),
       projects |-> Len(teamProjects),
       repositories |-> Len(teamRepos),
       avgTestCoverage |-> IF Len(teamRepos) > 0
                           THEN round(divide(sumOf(teamRepos, LAMBDA r : r.testCoverage),
                                             Len(teamRepos)))
                           ELSE Number(0, 1),
       avgTechDebt |-> IF Len(teamRepos) > 0
                       THEN toFixed(divide(sumOf(teamRepos, LAMBDA r : r.techDebtScore),
                                           Len(teamRepos)), 1)
                       ELSE Number(0, 1),
       openIncidents |-> Len(filter(teamIncidents,
                                    LAMBDA i : i.status # "Resolved" /\ i.status # "Post-mortem"))]

getTeamHealthMetrics(database, arguments) ==
  IF arguments = undefined THEN Throw(TypeError)
  ELSE
    LET args == arguments[1]
        teams == IF TruthyText(args.team)
                 THEN filter(database.teams,
                             LAMBDA t : includes(toLowerCase(t.name), toLowerCase(args.team[1])))
                 ELSE database.teams
    IN  Return([length |-> Len(teams), results |-> teams,
                teams |-> [i \in DOMAIN teams |-> teamHealth(database, teams[i])]])

(***************************************************************************)
(* Tool arguments the clients send                                         *)
(***************************************************************************)
acme == <<"a", "c", "m", "e">>

ACME == <<"A", "C", "M", "E">>

SearchCustomersArgs ==
  [query : Optional({<<>>, acme, ACME, <<"4">>}),
   tier : Optional({"", "enterprise", "growth"}),
   status : Optional({"", "active", "at_risk"}),
   minRevenue : Optional({0, 45000, 45001, 250000})]

SearchEmployeesArgs ==
  [query : Optional({<<>>, <<"j", "o">>, <<"J", "O">>}),
   department : Optional({<<"e", "n", "g">>, <<"E", "N", "G">>}),
   position : Optional({<<"s", "w">>, <<"S", "W">>}),
   status : Optional({"", "active"}),
   location : Optional({<<"s", "f">>, <<"S", "F">>})]

GetDepartmentInfoArgs ==
  [departmentName : Optional({<<>>, <<"e", "n", "g">>, <<"E", "N", "G">>, <<"O", "p", "s">>,
                              <<"H", "R">>, <<"x">>})]

SalaryAnalysisArgs ==
  [groupBy : Optional({"", "department", "position", "location", "salary"})]

TimeOffSummaryArgs ==
  [employeeId : Optional({<<>>, <<"e", "1">>, <<"e", "9">>}),
   status : Optional({"", "approved", "pending"}),
   type : Optional({"", "vacation", "sick"})]

PerformanceDashboardArgs ==
  [period : Optional({"", "2024-Q1", "2024-Q2", "2023-Q4"}),
   status : Optional({"", "completed", "scheduled"})]

ProjectStatusArgs ==
  [status : Optional({"", "Active", "Blocked"}),
   priority : Optional({"P0", "P1"}),
   team : Optional({<<>>, <<"s", "e", "a">>, <<"S", "E", "A">>}),
   owner : Optional({"", "eng_001"})]

RepositoryMetricsArgs ==
  [team : Optional({<<"s", "e", "a">>, <<"S", "E", "A">>}),
   type : Optional({<<"s", "v">>, <<"S", "V">>}),
   language : Optional({<<>>, <<"p", "y">>, <<"P", "Y">>}),
   sortBy : Optional({"", "techDebt", "security", "coverage", "uptime", "name"})]

DeploymentDashboardArgs ==
  [repository : Optional({<<>>, <<"s", "v", "c">>, <<"S", "V", "C">>, <<"z">>}),
   environment : Optional({"production", "staging"}),
   status : Optional({"", "success", "failed"}),
   \* declared by the schema, read by no statement of the tool
   timeframe : Optional({"24h"})]

IncidentAnalysisArgs ==
  [severity : Optional({"", "SEV1", "SEV2"}),
   status : Optional({"Resolved", "Investigating"}),
   service : Optional({<<"s", "v", "c">>, <<"S", "V", "C">>}),
   assignee : Optional({"eng_001"}),
   \* declared by the schema, read by no statement of the tool
   timeframe : Optional({"30d"})]

CodeReviewMetricsArgs ==
  [repository : Optional({<<"s", "v", "c">>, <<"S", "V", "C">>}),
   author : Optional({"eng_001"}),
   reviewer : Optional({"", "eng_100"}),
   status : Optional({"", "Merged", "Open"})]

SearchEngineersArgs ==
  [query : Optional({<<>>, <<"a", "l">>, <<"A", "L">>}),
   team : Optional({<<"s", "e", "a">>, <<"S", "E", "A">>}),
   role : Optional({<<"s", "w", "e">>, <<"S", "W", "E">>}),
   level : Optional({"", "L6"}),
   location : Optional({<<"s", "f">>}),
   skill : Optional({<<>>, <<"g", "o">>, <<"O">>})]

OncallScheduleArgs ==
  [team : Optional({<<"s", "e", "a">>, <<"S", "E", "A">>}),
   service : Optional({<<>>, <<"s", "v", "c">>, <<"S", "V", "C">>}),
   engineer : Optional({<<"e", "1">>, <<"e", "9">>}),
   \* a key the schema does not declare
   limit : Optional({10})]

TeamHealthMetricsArgs ==
  [team : Optional({<<>>, <<"s", "e", "a">>, <<"S", "R", "E">>})]

AnalyzeCustomerHealthArgs == [daysThreshold : Optional({0, 90, 180})]

RevenueAnalyticsArgs == [period : Optional({"quarter"})]

CustomerDetailsArgs ==
  [customerId : Optional({<<>>, <<"c", "1">>, <<"c", "3">>, <<"c", "4">>, <<"c", "9">>})]

EmployeeDetailsArgs ==
  [employeeId : Optional({<<>>, <<"e", "1">>, <<"e", "3">>, <<"e", "4">>, <<"e", "9">>})]

(***************************************************************************)
(* The CallToolRequestSchema handlers                                      *)
(***************************************************************************)
\* the tools each server lists in its answer to ListTools
declaredTools(srv) ==
  CASE srv = "customer" ->
         {"search_customers", "get_customer_details", "analyze_customer_health",
          "revenue_analytics"}
    [] srv = "hrm" ->
         {"search_employees", "get_employee_details", "get_department_info", "salary_analysis",
          "time_off_summary", "performance_dashboard", "get_project_status",
          "repository_metrics", "deployment_dashboard", "incident_analysis",
          "code_review_metrics"}
    [] srv = "engineering" ->
         {"search_engineers", "get_project_status", "repository_metrics",
          "deployment_dashboard", "incident_analysis", "code_review_metrics",
          "oncall_schedule", "team_health_metrics"}

\* faulty variant: a name that no case matches gets an empty result
dispatchIgnoresUnknown(srv, database, name, arguments) ==
  CASE srv = "customer" /\ name = "search_customers" -> searchCustomers(database, arguments)
    [] srv = "customer" /\ name = "get_customer_details" ->
         getCustomerDetails(database, arguments)
    [] srv = "customer" /\ name = "analyze_customer_health" ->
         analyzeCustomerHealth(database, arguments)
    [] srv = "customer" /\ name = "revenue_analytics" ->
         getRevenueAnalytics(database, arguments)
    [] srv = "hrm" /\ name = "search_employees" -> searchEmployees(database, arguments)
    [] srv = "hrm" /\ name = "get_employee_details" ->
         getEmployeeDetails(database, arguments)
    [] srv = "hrm" /\ name = "get_department_info" -> getDepartmentInfo(database, arguments)
    [] srv = "hrm" /\ name = "salary_analysis" -> getSalaryAnalysis(database, arguments)
    [] srv = "hrm" /\ name = "time_off_summary" -> getTimeOffSummary(database, arguments)
    [] srv = "hrm" /\ name = "performance_dashboard" ->
         getPerformanceDashboard(database, arguments)
    [] srv = "engineering" /\ name = "search_engineers" -> searchEngineers(database, arguments)
    [] srv = "engineering" /\ name = "oncall_schedule" -> getOncallSchedule(database, arguments)
    [] srv = "engineering" /\ name = "team_health_metrics" ->
         getTeamHealthMetrics(database, arguments)
    [] srv \in {"hrm", "engineering"} /\ name = "get_project_status" ->
         getProjectStatus(database, arguments)
    [] srv \in {"hrm", "engineering"} /\ name = "repository_metrics" ->
         getRepositoryMetrics(database, arguments)
    [] srv \in {"hrm", "engineering"} /\ name = "deployment_dashboard" ->
         getDeploymentDashboard(database, arguments)
    [] srv \in {"hrm", "engineering"} /\ name = "incident_analysis" ->
         getIncidentAnalysis(database, arguments)
    [] srv \in {"hrm", "engineering"} /\ name = "code_review_metrics" ->
         getCodeReviewMetrics(database, arguments)
    [] OTHER -> Return(<<>>)

\* the switch over the tool name, inside the try block of each server
dispatch(srv, database, name, arguments) ==
  CASE srv = "customer" /\ name = "search_customers" -> searchCustomers(database, arguments)
    [] srv = "customer" /\ name = "get_customer_details" ->
         getCustomerDetails(database, arguments)
    [] srv = "customer" /\ name = "analyze_customer_health" ->
         analyzeCustomerHealth(database, arguments)
    [] srv = "customer" /\ name = "revenue_analytics" ->
         getRevenueAnalytics(database, arguments)
    [] srv = "hrm" /\ name = "search_employees" -> searchEmployees(database, arguments)
    [] srv = "hrm" /\ name = "get_employee_details" ->
         getEmployeeDetails(database, arguments)
    [] srv = "hrm" /\ name = "get_department_info" -> getDepartmentInfo(database, arguments)
    [] srv = "hrm" /\ name = "salary_analysis" -> getSalaryAnalysis(database, arguments)
    [] srv = "hrm" /\ name = "time_off_summary" -> getTimeOffSummary(database, arguments)
    [] srv = "hrm" /\ name = "performance_dashboard" ->
         getPerformanceDashboard(database, arguments)
    [] srv = "engineering" /\ name = "search_engineers" -> searchEngineers(database, arguments)
    [] srv = "engineering" /\ name = "oncall_schedule" -> getOncallSchedule(database, arguments)
    [] srv = "engineering" /\ name = "team_health_metrics" ->
         getTeamHealthMetrics(database, arguments)
    [] srv \in {"hrm", "engineering"} /\ name = "get_project_status" ->
         getProjectStatus(database, arguments)
    [] srv \in {"hrm", "engineering"} /\ name = "repository_metrics" ->
         getRepositoryMetrics(database, arguments)
    [] srv \in {"hrm", "engineering"} /\ name = "deployment_dashboard" ->
         getDeploymentDashboard(database, arguments)
    [] srv \in {"hrm", "engineering"} /\ name = "incident_analysis" ->
         getIncidentAnalysis(database, arguments)
    [] srv \in {"hrm", "engineering"} /\ name = "code_review_metrics" ->
         getCodeReviewMetrics(database, arguments)
    [] OTHER -> Throw(<<"Unknown tool: ", name>>)

\* try { switch ... } catch (error) { return { content: Error..., isError: true } }
\* outcome is what the switch returned or threw
CallTool(outcome) ==
  IF outcome.type = "throw"
  THEN [isError |-> TRUE, content |-> <<"Error: ", outcome.value>>]
  ELSE [isError |-> FALSE, content |-> outcome.value]

(***************************************************************************)
(* Resource reads                                                          *)
(***************************************************************************)
\* the resources each server lists
declaredResources(srv) ==
  CASE srv = "customer" -> {"customers://summary", "customers://database-schema"}
    [] srv = "hrm" -> {"hrm://company-overview", "hrm://org-chart", "hrm://payroll-summary"}
    [] srv = "engineering" ->
         {"engineering://org-overview", "engineering://team-structure",
          "engineering://tech-stack", "engineering://quarterly-metrics"}

customersSummary(database) ==
  [totalCustomers |-> Len(database.customers),
   enterpriseCustomers |-> Len(filter(database.customers, LAMBDA c : c.tier = "enterprise")),
   totalRevenue |-> sumOf(database.customers, LAMBDA c : c.totalRevenue),
   atRiskCustomers |-> Len(filter(database.customers, LAMBDA c : c.status = "at_risk")),
   avgSupportTicketsPerCustomer |->
     divide(Len(database.supportTickets), Len(database.customers))]

\* the field names the schema document describes
databaseSchema ==
  [customers |-> <<"id", "name", "email", "tier", "totalRevenue", "lastOrderDate",
                   "supportTickets", "status">>,
   orders |-> <<"id", "customerId", "amount", "date", "status">>,
   supportTickets |-> <<"id", "customerId", "subject", "priority", "status", "createdDate">>]

companyOverview(database) ==
  [totalEmployees |-> Len(database.employees),
   activeEmployees |-> Len(filter(database.employees, LAMBDA e : e.status = "active")),
   onLeaveEmployees |-> Len(filter(database.employees, LAMBDA e : e.status = "on_leave")),
   totalDepartments |-> Len(database.departments),
   averageSalary |->
     round(divide(sumOf(database.employees, LAMBDA e : e.salary), Len(database.employees))),
   totalPayrollBudget |-> sumOf(database.employees, LAMBDA e : e.salary),
   pendingTimeOffRequests |->
     Len(filter(database.timeOffRequests, LAMBDA r : r.status = "pending")),
   upcomingPerformanceReviews |->
     Len(filter(database.performanceReviews, LAMBDA r : r.status = "scheduled"))]

orgChart(database) ==
  [departments |->
     map(database.departments,
         LAMBDA dept :
           [department |-> dept,
            employees |->
              map(filter(database.employees, LAMBDA emp : emp.department = dept.name),
                  LAMBDA emp : [id |-> emp.id, name |-> <<emp.firstName, emp.lastName>>,
                                position |-> emp.position, manager |-> emp.manager])])]

payrollSummary(database) ==
  [totalGrossPay |-> sumOf(database.payrollRecords, LAMBDA p : p.grossPay),
   totalNetPay |-> sumOf(database.payrollRecords, LAMBDA p : p.netPay),
   totalDeductions |->
     sumOf(database.payrollRecords,
           LAMBDA p : p.deductions.tax + p.deductions.health + p.deductions.retirement),
   payrollRecordsCount |-> Len(database.payrollRecords),
   lastPayPeriod |-> "2024-06-01"]

\* uptime is in hundredths of a percent
orgOverview(database) ==
  [totalEngineers |-> Len(database.engineers),
   totalTeams |-> Len(database.teams),
   activeProjects |-> Len(filter(database.projects, LAMBDA p : p.status = "Active")),
   totalRepositories |-> Len(database.repositories),
   deploymentsThisWeek |-> Len(database.deployments),
   openIncidents |->
     Len(filter(database.incidents,
                LAMBDA i : i.status # "Resolved" /\ i.status # "Post-mortem")),
   testCoverageAvg |->
     round(divide(sumOf(database.repositories, LAMBDA r : r.testCoverage),
                  Len(database.repositories))),
   techDebtAvg |->
     round(divide(sumOf(database.repositories, LAMBDA r : r.techDebtScore),
                  Len(database.repositories))),
   uptimeAvg |->
     toFixed(divide(sumOf(database.repositories, LAMBDA r : r.uptime),
                    100 * Len(database.repositories)), 2)]

\* faulty variant: an id that resolves to no engineer leaves a null in the list
engineerDetailsWithNull(database, team) ==
  map(team.engineers,
      LAMBDA engId :
        LET engineer == findById(database.engineers, engId)
        IN  IF engineer = undefined THEN [id |-> <<>>, name |-> <<>>, role |-> <<>>, level |-> ""]
            ELSE [id |-> engineer[1].id, name |-> engineer[1].name,
                  role |-> engineer[1].role, level |-> engineer[1].level])

\* team.engineers.map(engId => engineer ? {...} : null).filter(Boolean)
engineerDetails(database, team) ==
  map(filter(team.engineers, LAMBDA engId : findById(database.engineers, engId) # undefined),
      LAMBDA engId :
        LET engineer == findById(database.engineers, engId)[1]
        IN  [id |-> engineer.id, name |-> engineer.name,
             role |-> engineer.role, level |-> engineer.level])

teamStructure(database) ==
  [teams |-> map(database.teams,
                 LAMBDA team : [team |-> team,
                                engineerDetails |-> engineerDetails(database, team),
                                manager |-> managerName(database, team.manager)]),
   totalBudget |-> sumOf(database.teams, LAMBDA t : t.budget)]

techStack(database) ==
  [repositoryBreakdown |-> countBy(database.repositories, LAMBDA repo : repo.language)]

quarterlyMetrics(database) ==
  [quarter |-> "Q2 2024",
   projectsCompleted |-> 12,
   projectsOnTrack |-> Len(filter(database.projects, LAMBDA p : p.progress >= 75))]

\* the switch over the uri of the resources/read handler; no try block surrounds it
readResource(srv, database, uri) ==
  CASE srv = "customer" /\ uri = "customers://summary" -> Return(customersSummary(database))
    [] srv = "customer" /\ uri = "customers://database-schema" -> Return(databaseSchema)
    [] srv = "hrm" /\ uri = "hrm://company-overview" -> Return(companyOverview(database))
    [] srv = "hrm" /\ uri = "hrm://org-chart" -> Return(orgChart(database))
    [] srv = "hrm" /\ uri = "hrm://payroll-summary" -> Return(payrollSummary(database))
    [] srv = "engineering" /\ uri = "engineering://org-overview" ->
         Return(orgOverview(database))
    [] srv = "engineering" /\ uri = "engineering://team-structure" ->
         Return(teamStructure(database))
    [] srv = "engineering" /\ uri = "engineering://tech-stack" -> Return(techStack(database))
    [] srv = "engineering" /\ uri = "engineering://quarterly-metrics" ->
         Return(quarterlyMetrics(database))
    [] OTHER -> Throw(<<"Unknown resource: ", uri>>)

(***************************************************************************)
(* Writes to the database                                                  *)
(***************************************************************************)
\* faulty variant: repos is the collection itself until a filter replaces it,
\* so an unfiltered sort reorders the database
repositoriesAfterMetricsInPlace(database, arguments) ==
  IF arguments = undefined THEN database.repositories
  ELSE
    LET args == arguments[1]
    IN  IF TruthyText(args.team) \/ TruthyText(args.type) \/ TruthyText(args.language)
        THEN database.repositories
        ELSE sortRepositories(database.repositories, args.sortBy)

\* getRepositoryMetrics: `let repos = [...db.repositories]` copies the array, and
\* repos.sort(...) sorts the copy in place: the collection keeps its order
repositoriesAfterMetrics(database, arguments) == database.repositories

\* the database once the tool has run: repos.sort is the only in-place
\* operation on an array in the three servers
databaseAfter(srv, database, name, arguments) ==
  IF srv \in {"hrm", "engineering"} /\ name = "repository_metrics"
  THEN [database EXCEPT !.repositories = repositoriesAfterMetrics(database, arguments)]
  ELSE database

\* faulty variant: no catch block, an error of the tool leaves the handler
uncaught(outcome) ==
  IF outcome.type = "throw" THEN outcome ELSE Return(CallTool(outcome))

callToolHandlerWithoutCatch(srv, database, name, arguments) ==
  uncaught(dispatch(srv, database, name, arguments))

\* the tools/call handler: an async function whose promise resolves to the
\* result the try block or the catch block returns
callToolHandler(srv, database, name, arguments) ==
  Return(CallTool(dispatch(srv, database, name, arguments)))

(***************************************************************************)
(* State machine                                                           *)
(***************************************************************************)
Servers == {"customer", "hrm", "engineering"}

\* the database a server builds at start
databaseOf(srv, seed) ==
  CASE srv = "customer" -> customerDatabase(seed)
    [] srv = "hrm" -> hrmDatabase(seed)
    [] srv = "engineering" -> engineeringDatabase(seed)

\* the day the clock of the customer data server shows, as a day number like
\* lastOrderDate; the other servers do not read the clock
Todays == {191, 281}

NoRequest == [method |-> "", name |-> "", arguments |-> undefined]

NoResponse == [isError |-> FALSE, content |-> <<>>]

\* no invocation of the tools/call handler
NoCall == [name |-> "", arguments |-> undefined, stage |-> "none",
           outcome |-> Return(<<>>), result |-> NoResponse]

Init ==
  /\ server \in Servers
  /\ \E seed \in Seeds : db = databaseOf(server, seed)
  /\ pc = "idle"
  /\ request = NoRequest
  /\ response = NoResponse
  /\ calls = [slot \in 1..MaxCalls |-> NoCall]
  /\ today \in IF server = "customer" THEN Todays ELSE {0}

\* the error response of the protocol layer for a handler whose promise rejects
ProtocolError(message) == [error |-> message]

\* the handler runs to completion on one request and leaves the database as
\* database; its promise resolves to the result to send, or rejects
Serve(method, name, arguments, outcome, database) ==
  /\ request' = [method |-> method, name |-> name, arguments |-> arguments]
  /\ response' = IF outcome.type = "throw" THEN ProtocolError(outcome.value)
                 ELSE outcome.value
  /\ pc' = CASE outcome.type = "throw" -> "raising"
             [] method = "tools/call" -> "replying"
             [] OTHER -> "reading"
  /\ db' = database
  /\ UNCHANGED <<server, calls, today>>

\* a tools/call request
Handle(name, arguments) ==
  Serve("tools/call", name, arguments, callToolHandler(server, db, name, arguments),
        databaseAfter(server, db, name, arguments))

SearchCustomers ==
  /\ pc = "idle"
  /\ server = "customer"
  /\ \E arguments \in Optional(SearchCustomersArgs) : Handle("search_customers", arguments)

CustomerDetails ==
  /\ pc = "idle"
  /\ server = "customer"
  /\ \E arguments \in Optional(CustomerDetailsArgs) : Handle("get_customer_details", arguments)

AnalyzeCustomerHealth ==
  /\ pc = "idle"
  /\ server = "customer"
  /\ \E arguments \in Optional(AnalyzeCustomerHealthArgs) :
       Handle("analyze_customer_health", arguments)

RevenueAnalytics ==
  /\ pc = "idle"
  /\ server = "customer"
  /\ \E arguments \in Optional(RevenueAnalyticsArgs) : Handle("revenue_analytics", arguments)

SearchEmployees ==
  /\ pc = "idle"
  /\ server = "hrm"
  /\ \E arguments \in Optional(SearchEmployeesArgs) : Handle("search_employees", arguments)

EmployeeDetails ==
  /\ pc = "idle"
  /\ server = "hrm"
  /\ \E arguments \in Optional(EmployeeDetailsArgs) : Handle("get_employee_details", arguments)

GetDepartmentInfo ==
  /\ pc = "idle"
  /\ server = "hrm"
  /\ \E arguments \in Optional(GetDepartmentInfoArgs) : Handle("get_department_info", arguments)

SalaryAnalysis ==
  /\ pc = "idle"
  /\ server = "hrm"
  /\ \E arguments \in Optional(SalaryAnalysisArgs) : Handle("salary_analysis", arguments)

TimeOffSummary ==
  /\ pc = "idle"
  /\ server = "hrm"
  /\ \E arguments \in Optional(TimeOffSummaryArgs) : Handle("time_off_summary", arguments)

PerformanceDashboard ==
  /\ pc = "idle"
  /\ server = "hrm"
  /\ \E arguments \in Optional(PerformanceDashboardArgs) :
       Handle("performance_dashboard", arguments)

SearchEngineers ==
  /\ pc = "idle"
  /\ server = "engineering"
  /\ \E arguments \in Optional(SearchEngineersArgs) : Handle("search_engineers", arguments)

OncallSchedule ==
  /\ pc = "idle"
  /\ server = "engineering"
  /\ \E arguments \in Optional(OncallScheduleArgs) : Handle("oncall_schedule", arguments)

TeamHealthMetrics ==
  /\ pc = "idle"
  /\ server = "engineering"
  /\ \E arguments \in Optional(TeamHealthMetricsArgs) :
       Handle("team_health_metrics", arguments)

ProjectStatus ==
  /\ pc = "idle"
  /\ server \in {"hrm", "engineering"}
  /\ \E arguments \in Optional(ProjectStatusArgs) : Handle("get_project_status", arguments)

RepositoryMetrics ==
  /\ pc = "idle"
  /\ server \in {"hrm", "engineering"}
  /\ \E arguments \in Optional(RepositoryMetricsArgs) : Handle("repository_metrics", arguments)

DeploymentDashboard ==
  /\ pc = "idle"
  /\ server \in {"hrm", "engineering"}
  /\ \E arguments \in Optional(DeploymentDashboardArgs) :
       Handle("deployment_dashboard", arguments)

IncidentAnalysis ==
  /\ pc = "idle"
  /\ server \in {"hrm", "engineering"}
  /\ \E arguments \in Optional(IncidentAnalysisArgs) : Handle("incident_analysis", arguments)

CodeReviewMetrics ==
  /\ pc = "idle"
  /\ server \in {"hrm", "engineering"}
  /\ \E arguments \in Optional(CodeReviewMetricsArgs) : Handle("code_review_metrics", arguments)

\* a tools/call request naming a tool the server does not declare
UnknownTool ==
  /\ pc = "idle"
  /\ \E name \in {"drop_database", "search_customers", "search_employees", "oncall_schedule"} :
       /\ name \notin declaredTools(server)
       /\ \E arguments \in Optional({[query |-> Some(acme)]}) : Handle(name, arguments)

\* the uris a client asks for: the listed ones and one that no server lists
ResourceUris ==
  UNION {declaredResources(srv) : srv \in Servers} \cup {"hrm://salaries"}

\* a resources/read request
ReadResource ==
  /\ pc = "idle"
  /\ \E uri \in ResourceUris :
       Serve("resources/read", uri, undefined, readResource(server, db, uri), db)

\* the transport sends the result or the error; the server awaits the next request
Reply ==
  /\ pc \in {"replying", "reading", "raising"}
  /\ pc' = "idle"
  /\ request' = NoRequest
  /\ response' = NoResponse
  /\ UNCHANGED <<server, db, calls, today>>

Next ==
  \/ SearchCustomers
  \/ CustomerDetails
  \/ AnalyzeCustomerHealth
  \/ RevenueAnalytics
  \/ SearchEmployees
  \/ EmployeeDetails
  \/ GetDepartmentInfo
  \/ SalaryAnalysis
  \/ TimeOffSummary
  \/ PerformanceDashboard
  \/ SearchEngineers
  \/ OncallSchedule
  \/ TeamHealthMetrics
  \/ ProjectStatus
  \/ RepositoryMetrics
  \/ DeploymentDashboard
  \/ IncidentAnalysis
  \/ CodeReviewMetrics
  \/ UnknownTool
  \/ ReadResource
  \/ Reply

Spec == Init /\ [][Next]_vars

(***************************************************************************)
(* Overlapping tool calls                                                  *)
(***************************************************************************)
\* the arguments of repository_metrics that only ask for this ordering
OnlySortBy(sortBy) ==
  [team |-> undefined, type |-> undefined, language |-> undefined, sortBy |-> sortBy]

\* the tools/call requests that clients send while another is being handled
OverlapRequests(srv) ==
  IF srv = "customer"
  THEN {[name |-> "search_customers",
         arguments |-> Some([query |-> Some(acme), tier |-> undefined,
                             status |-> undefined, minRevenue |-> undefined])],
        [name |-> "search_customers", arguments |-> undefined],
        [name |-> "get_customer_details",
         arguments |-> Some([customerId |-> Some(<<"c", "9">>)])],
        [name |-> "drop_database", arguments |-> undefined]}
  ELSE {[name |-> "repository_metrics", arguments |-> Some(OnlySortBy(Some("coverage")))],
        [name |-> "repository_metrics", arguments |-> Some(OnlySortBy(undefined))],
        [name |-> "incident_analysis", arguments |-> undefined],
        [name |-> "drop_database", arguments |-> undefined]}

\* faulty variant: the outcome is kept in one place that every invocation
\* writes, so an invocation resumes with the outcome of the latest one
awaitedShared(cs, slot) ==
  cs[CHOOSE s \in DOMAIN cs :
       /\ cs[s].stage = "awaiting"
       /\ \A t \in DOMAIN cs : cs[t].stage = "awaiting" => t <= s].outcome

\* `await this.tool(args)`: the invocation resumes with the outcome of the
\* promise its own call of the tool returned
awaited(cs, slot) == cs[slot].outcome

\* the handler is invoked on a request: it calls the tool, which runs to its
\* end, and suspends at `await`; for a name of no case it throws, catches
\* and returns at once
Accept(slot) ==
  /\ calls[slot].stage = "none"
  /\ \E req \in OverlapRequests(server) :
       /\ calls' = [calls EXCEPT ![slot] =
                      [name |-> req.name, arguments |-> req.arguments,
                       stage |-> IF req.name \in declaredTools(server)
                                 THEN "awaiting" ELSE "done",
                       outcome |-> dispatch(server, db, req.name, req.arguments),
                       result |-> IF req.name \in declaredTools(server) THEN NoResponse
                                  ELSE CallTool(dispatch(server, db, req.name,
                                                         req.arguments))]]
       /\ db' = databaseAfter(server, db, req.name, req.arguments)
  /\ UNCHANGED <<server, pc, request, response, today>>

\* the invocation resumes after `await`: it returns the value, or the catch
\* block returns the failed result
Resume(slot) ==
  /\ calls[slot].stage = "awaiting"
  /\ calls' = [calls EXCEPT ![slot].stage = "done",
                            ![slot].result = CallTool(awaited(calls, slot))]
  /\ UNCHANGED <<server, db, pc, request, response, today>>

\* the result of the invocation is sent
Send(slot) ==
  /\ calls[slot].stage = "done"
  /\ calls' = [calls EXCEPT ![slot] = NoCall]
  /\ UNCHANGED <<server, db, pc, request, response, today>>

NextOverlap ==
  \E slot \in 1..MaxCalls :
    \/ Accept(slot)
    \/ Resume(slot)
    \/ Send(slot)

SpecOverlap == Init /\ [][NextOverlap]_vars

(***************************************************************************)
(* Vocabulary of the properties                                            *)
(***************************************************************************)
FilteringTools ==
  {"search_customers", "search_employees", "search_engineers", "get_project_status",
   "repository_metrics", "deployment_dashboard", "incident_analysis", "code_review_metrics",
   "time_off_summary", "performance_dashboard", "oncall_schedule"}

\* the collection a filtering tool queries
QueriedCollection(name) ==
  CASE name = "search_customers" -> db.customers
    [] name = "search_employees" -> db.employees
    [] name = "search_engineers" -> db.engineers
    [] name = "get_project_status" -> db.projects
    [] name = "repository_metrics" -> db.repositories
    [] name = "deployment_dashboard" -> db.deployments
    [] name = "incident_analysis" -> db.incidents
    [] name = "code_review_metrics" -> db.codeReviews
    [] name = "time_off_summary" -> db.timeOffRequests
    [] name = "performance_dashboard" -> db.performanceReviews
    [] name = "oncall_schedule" -> db.oncallRotations

\* a filtering tool has answered the request with a report
Filtered ==
  /\ pc = "replying"
  /\ request.name \in FilteringTools
  /\ ~response.isError

Results == response.content.results

Args == request.arguments[1]

\* the number of times x occurs in the sequence
Occurrences(seq, x) == Cardinality({i \in DOMAIN seq : seq[i] = x})

\* sub is seq with some elements left out: same elements, same relative order
IsSubsequence(sub, seq) ==
  \E pos \in [DOMAIN sub -> DOMAIN seq] :
    /\ \A i \in DOMAIN sub : seq[pos[i]] = sub[i]
    /\ \A i, j \in DOMAIN sub : i < j => pos[i] < pos[j]

\* the request asks repository_metrics for one of its four orderings
SortRequested ==
  /\ request.name = "repository_metrics"
  /\ Args.sortBy \in {Some("techDebt"), Some("security"), Some("coverage"), Some("uptime")}

(***************************************************************************)
(* C1: whatever the filter arguments, every record of a filtering tool's   *)
(* result is a record of the queried collection, and it occurs in the      *)
(* result no more often than in the collection.                            *)
(***************************************************************************)
C1_ResultWithinCollection ==
  Filtered =>
    \A i \in DOMAIN Results :
      /\ \E j \in DOMAIN QueriedCollection(request.name) :
           QueriedCollection(request.name)[j] = Results[i]
      /\ Occurrences(Results, Results[i])
           <= Occurrences(QueriedCollection(request.name), Results[i])

\* a filter has kept some records of the collection and dropped others
C1_Witness ==
  /\ Filtered
  /\ Len(Results) > 0
  /\ Len(Results) < Len(QueriedCollection(request.name))

(***************************************************************************)
(* C2: a filtering tool called with an argument object that supplies no    *)
(* property at all returns the whole collection, in the collection's       *)
(* order.                                                                  *)
(***************************************************************************)
NoCriteria == \A key \in DOMAIN Args : Args[key] = undefined

C2_NoCriteriaReturnsAll ==
  (Filtered /\ NoCriteria) => Results = QueriedCollection(request.name)

\* an empty argument object has been answered from a collection of several records
C2_Witness ==
  /\ Filtered
  /\ NoCriteria
  /\ Len(QueriedCollection(request.name)) >= 2
  /\ Len(Results) >= 2

(***************************************************************************)
(* C7: when no sort key is requested, the records of the result are in the *)
(* same relative order as in the queried collection.                       *)
(***************************************************************************)
C7_FilterIsStable ==
  (Filtered /\ ~SortRequested) => IsSubsequence(Results, QueriedCollection(request.name))

\* a filter without a sort key has dropped the middle record and kept two
C7_Witness ==
  /\ Filtered
  /\ ~SortRequested
  /\ Len(QueriedCollection(request.name)) = 3
  /\ Results = <<QueriedCollection(request.name)[1], QueriedCollection(request.name)[3]>>

(***************************************************************************)
(* What it means for a record to satisfy one criterion of a tool           *)
(***************************************************************************)
\* the argument properties that are filter criteria (sortBy orders, it does not filter)
CriteriaKeys == DOMAIN Args \ {"sortBy", "timeframe", "limit"}

\* criteria whose value is a text; the others are strings compared with ===,
\* except minRevenue which is a number
TextKeys(name) ==
  {"query", "position", "location", "team", "service", "repository", "skill",
   "department", "role", "language", "employeeId", "engineer"}
    \cup (IF name = "repository_metrics" THEN {"type"} ELSE {})

\* the value is one that `if (args.key)` takes for absent: "" or 0
Falsy(name, key, value) ==
  IF key = "minRevenue" THEN value = 0
  ELSE IF key \in TextKeys(name) THEN value = <<>>
  ELSE value = ""

\* the identity fields a query is looked up in
QueryFields(name) ==
  IF name = "search_employees" THEN {"firstName", "lastName", "email", "id"}
  ELSE {"name", "email", "id"}

Satisfies(name, key, rec, value) ==
  CASE key = "query" ->
         \E field \in QueryFields(name) : includes(toLowerCase(rec[field]), toLowerCase(value))
    [] key \in {"position", "location", "team", "service", "repository"} ->
         includes(toLowerCase(rec[key]), toLowerCase(value))
    [] key = "skill" ->
         \E i \in DOMAIN rec.skills : includes(toLowerCase(rec.skills[i]), toLowerCase(value))
    [] key \in {"department", "role", "language"} ->
         toLowerCase(rec[key]) = toLowerCase(value)
    [] key = "type" /\ name = "repository_metrics" ->
         toLowerCase(rec[key]) = toLowerCase(value)
    [] key = "minRevenue" -> rec.totalRevenue >= value
    [] key = "reviewer" -> \E i \in DOMAIN rec.reviewers : rec.reviewers[i] = value
    [] OTHER -> rec[key] = value

InResults(rec) == \E i \in DOMAIN Results : Results[i] = rec

Records(name) == {QueriedCollection(name)[i] : i \in DOMAIN QueriedCollection(name)}

(***************************************************************************)
(* C3 as stated: a record is in the result if and only if it satisfies     *)
(* every criterion the argument object supplies.                           *)
(***************************************************************************)
C3_AllSuppliedCriteria ==
  Filtered =>
    \A rec \in Records(request.name) :
      InResults(rec) <=>
        \A key \in CriteriaKeys :
          Args[key] # undefined => Satisfies(request.name, key, rec, Args[key][1])

(***************************************************************************)
(* C3 amended: a record is in the result if and only if it satisfies every *)
(* criterion supplied with a value other than "" and 0; a criterion that   *)
(* is absent, "" or 0 puts no constraint on its field.  The condition is a *)
(* conjunction, so the order in which the criteria are applied does not    *)
(* matter.                                                                 *)
(***************************************************************************)
C3_AllTruthyCriteria ==
  Filtered =>
    \A rec \in Records(request.name) :
      InResults(rec) <=>
        \A key \in CriteriaKeys :
          (Args[key] # undefined /\ ~Falsy(request.name, key, Args[key][1]))
            => Satisfies(request.name, key, rec, Args[key][1])

\* two criteria are in force; one record passes both, another passes only one of them
C3_Witness ==
  /\ Filtered
  /\ \E k1, k2 \in CriteriaKeys :
       /\ k1 # k2
       /\ Args[k1] # undefined /\ ~Falsy(request.name, k1, Args[k1][1])
       /\ Args[k2] # undefined /\ ~Falsy(request.name, k2, Args[k2][1])
       /\ \E kept, dropped \in Records(request.name) :
            /\ InResults(kept)
            /\ ~InResults(dropped)
            /\ Satisfies(request.name, k1, dropped, Args[k1][1])
            /\ ~Satisfies(request.name, k2, dropped, Args[k2][1])

(***************************************************************************)
(* C4: a substring criterion (query, position, location, team, service,    *)
(* repository) is case-insensitive: replacing its value by any string that *)
(* differs from it only in letter case leaves the result unchanged.        *)
(***************************************************************************)
SubstringKeys == {"query", "position", "location", "team", "service", "repository"}

upperCaseOf ==
  [c \in {LowerCaseLetters[i] : i \in DOMAIN LowerCaseLetters} |->
     UpperCaseLetters[CHOOSE i \in DOMAIN LowerCaseLetters : LowerCaseLetters[i] = c]]

UpperChar(c) == IF c \in DOMAIN upperCaseOf THEN upperCaseOf[c] ELSE c

\* the strings that differ from value at most in the case of their letters
RECURSIVE CaseVariants(_)
CaseVariants(value) ==
  IF value = <<>> THEN {<<>>}
  ELSE {<<c>> \o rest : c \in {LowerChar(Head(value)), UpperChar(Head(value))},
                        rest \in CaseVariants(Tail(value))}

\* the records the tool of the request returns for other arguments
ResultsFor(args) ==
  dispatch(server, db, request.name, Some(args)).value.results

C4_SubstringIgnoresCase ==
  Filtered =>
    \A key \in CriteriaKeys \cap SubstringKeys :
      Args[key] # undefined =>
        \A variant \in CaseVariants(Args[key][1]) :
          ResultsFor([Args EXCEPT ![key] = Some(variant)]) = Results

\* an upper-case criterion has matched a record whose field holds it in another case
C4_Witness ==
  /\ Filtered
  /\ \E key \in CriteriaKeys \cap (SubstringKeys \ {"query"}) :
       /\ Args[key] # undefined
       /\ Len(Args[key][1]) >= 2
       /\ \A i \in DOMAIN Args[key][1] : Args[key][1][i] # LowerChar(Args[key][1][i])
       /\ \E i \in DOMAIN Results :
            /\ ~includes(Results[i][key], Args[key][1])
            /\ includes(toLowerCase(Results[i][key]), toLowerCase(Args[key][1]))
  /\ Len(Results) < Len(QueriedCollection(request.name))

(***************************************************************************)
(* C5: the minimum-revenue filter of search_customers is inclusive.  Among *)
(* the customers that pass the other criteria, one whose totalRevenue      *)
(* equals minRevenue is in the result, and one that is left out has a      *)
(* totalRevenue strictly below minRevenue.                                 *)
(***************************************************************************)
C5_MinRevenueInclusive ==
  (Filtered /\ request.name = "search_customers") =>
    LET others == ResultsFor([Args EXCEPT !.minRevenue = undefined])
    IN  \A i \in DOMAIN others :
          /\ (Args.minRevenue # undefined /\ others[i].totalRevenue = Args.minRevenue[1])
               => InResults(others[i])
          /\ ~InResults(others[i])
               => (Args.minRevenue # undefined /\ others[i].totalRevenue < Args.minRevenue[1])

\* a customer whose revenue equals the threshold is kept while a poorer one is dropped
C5_Witness ==
  /\ Filtered
  /\ request.name = "search_customers"
  /\ Args.minRevenue # undefined
  /\ \E i \in DOMAIN Results : Results[i].totalRevenue = Args.minRevenue[1]
  /\ \E rec \in Records(request.name) : ~InResults(rec) /\ rec.totalRevenue < Args.minRevenue[1]

(***************************************************************************)
(* C6: an exact-match criterion on an enumerated field (tier, status,      *)
(* severity, priority, level), given one of the values of the enumeration, *)
(* keeps exactly the records whose field equals the criterion: of the      *)
(* records that pass the other criteria, those and only those.  Filtering  *)
(* one enterprise customer (revenue 250000) and one growth customer        *)
(* (revenue 45000) by tier = "enterprise" returns the enterprise customer  *)
(* alone.                                                                  *)
(***************************************************************************)
EnumeratedKeys == {"tier", "status", "severity", "priority", "level"}

TierScenario ==
  /\ Filtered
  /\ request.name = "search_customers"
  /\ Args = [query |-> undefined, tier |-> Some("enterprise"), status |-> undefined,
             minRevenue |-> undefined]
  /\ Len(db.customers) = 2
  /\ \E i, j \in DOMAIN db.customers :
       /\ db.customers[i].tier = "enterprise" /\ db.customers[i].totalRevenue = 250000
       /\ db.customers[j].tier = "growth" /\ db.customers[j].totalRevenue = 45000

BreakdownTools ==
  {"salary_analysis", "get_project_status", "deployment_dashboard", "incident_analysis",
   "code_review_metrics", "time_off_summary"}

BrokenDown ==
  /\ pc = "replying"
  /\ request.name \in BreakdownTools
  /\ ~response.isError

\* the records the breakdown is computed over
BreakdownInput ==
  IF request.name = "salary_analysis" THEN db.employees ELSE Results

\* the field the breakdown partitions by
BreakdownField ==
  CASE request.name = "salary_analysis" ->
         (IF Args.groupBy \in {Some("position"), Some("location")}
          THEN Args.groupBy[1] ELSE "department")
    [] request.name = "incident_analysis" -> "severity"
    [] request.name = "time_off_summary" -> "type"
    [] OTHER -> "status"

\* the groups of the breakdown, each with its key and its count
BreakdownGroups ==
  CASE request.name = "salary_analysis" ->
         [i \in DOMAIN response.content.analysis |->
            [key |-> response.content.analysis[i].group,
             count |-> response.content.analysis[i].count]]
    [] request.name \in {"get_project_status", "time_off_summary"} ->
         [i \in DOMAIN response.content.summary |->
            [key |-> response.content.summary[i].key,
             count |-> response.content.summary[i].count]]
    [] request.name = "incident_analysis" -> response.content.severityBreakdown
    [] OTHER -> response.content.statusBreakdown

SumOfCounts(groups) ==
  LET partial[i \in 0..Len(groups)] ==
        IF i = 0 THEN 0 ELSE partial[i - 1] + groups[i].count
  IN  partial[Len(groups)]

C8_BreakdownCountsPartitionInput ==
  BrokenDown =>
    /\ SumOfCounts(BreakdownGroups) = Len(BreakdownInput)
    /\ \A i \in DOMAIN BreakdownInput :
         Cardinality({g \in DOMAIN BreakdownGroups :
                        BreakdownGroups[g].key = BreakdownInput[i][BreakdownField]}) = 1
    /\ \A g \in DOMAIN BreakdownGroups :
         BreakdownGroups[g].count =
           Cardinality({i \in DOMAIN BreakdownInput :
                          BreakdownInput[i][BreakdownField] = BreakdownGroups[g].key})

\* a breakdown of three records into a group of two and a group of one
C8_Witness ==
  /\ BrokenDown
  /\ Len(BreakdownInput) = 3
  /\ Len(BreakdownGroups) = 2
  /\ \E g \in DOMAIN BreakdownGroups : BreakdownGroups[g].count = 2

(***************************************************************************)
(* C9: over an empty filtered deployment set, deployment_dashboard does    *)
(* not fail and reports the success rate as "not applicable", never as     *)
(* NaN.                                                                    *)
(***************************************************************************)
C9_SuccessRateOfNoDeployments ==
  (Filtered /\ request.name = "deployment_dashboard" /\ Len(Results) = 0) =>
    /\ response.content.successRate.kind # "NaN"
    /\ response.content.successRate.kind = "not applicable"

(***************************************************************************)
(* C10: every average a tool reports over an empty record set (average     *)
(* salary of get_department_info, average rating of performance_dashboard, *)
(* average coverage, tech debt and uptime of repository_metrics, average   *)
(* duration of deployment_dashboard, average lines changed of              *)
(* code_review_metrics) is a defined value, never NaN.                     *)
(***************************************************************************)
\* the averages of the report, when the set they are taken over is empty
AveragesOverNothing ==
  IF pc # "replying" \/ response.isError THEN {}
  ELSE CASE request.name = "get_department_info" /\ Len(response.content.employees) = 0 ->
              {response.content.averageSalary}
         [] request.name = "performance_dashboard" /\ Len(Results) = 0 ->
              {response.content.averageRating}
         [] request.name = "repository_metrics" /\ Len(Results) = 0 ->
              {response.content.avgTestCoverage, response.content.avgTechDebt,
               response.content.avgUptime}
         [] request.name = "deployment_dashboard" /\ Len(Results) = 0 ->
              {response.content.avgDuration}
         [] request.name = "code_review_metrics" /\ Len(Results) = 0 ->
              {response.content.avgLinesChanged}
         [] OTHER -> {}

C10_AverageOfNothingIsDefined ==
  \A average \in AveragesOverNothing : average.kind # "NaN"

(***************************************************************************)
(* Foreign keys                                                            *)
(***************************************************************************)
\* the tools whose report resolves a foreign key of each listed record
JoiningTools ==
  {"time_off_summary", "performance_dashboard", "oncall_schedule", "team_health_metrics"}

\* a successful report of a joining tool is about to be sent
Dangling(collection, id) == findById(collection, id) = undefined

\* what the report shows in place of each reference whose target does not exist
UnresolvedShown ==
  LET report == response.content
      listed == report.results
  IN  CASE request.name = "time_off_summary" ->
             {report.names[i] :
                i \in {j \in DOMAIN listed : Dangling(db.employees, listed[j].employeeId)}}
        [] request.name = "performance_dashboard" ->
             {report.names[i] :
                i \in {j \in DOMAIN listed : Dangling(db.employees, listed[j].employeeId)}}
             \cup {report.reviewers[i] :
                     i \in {j \in DOMAIN listed : Dangling(db.employees, listed[j].reviewerId)}}
        [] request.name = "oncall_schedule" ->
             {report.engineers[i] :
                i \in {j \in DOMAIN listed : Dangling(db.engineers, listed[j].engineer)}}
             \cup UNION {{report.escalation[i][k] :
                            k \in {l \in DOMAIN listed[i].escalationPath :
                                     Dangling(db.engineers, listed[i].escalationPath[l])}} :
                         i \in DOMAIN listed}
        [] request.name = "team_health_metrics" ->
             {report.teams[i].manager :
                i \in {j \in DOMAIN listed : Dangling(db.engineers, listed[j].manager)}}

(***************************************************************************)
(* C11: a tool that resolves a foreign key whose target does not exist     *)
(* (team manager, oncall engineer, escalation-path entry, time-off         *)
(* employee, review employee or reviewer) does not raise, and what it      *)
(* reports for the reference is never an undefined value.                  *)
(***************************************************************************)
C11_DanglingReferenceIsReported ==
  (/\ pc = "replying"
   /\ request.name \in JoiningTools \cap declaredTools(server)
   /\ request.arguments # undefined) =>
    /\ ~response.isError
    /\ \A shown \in UnresolvedShown : \A k \in DOMAIN shown : shown[k] # "undefined"

(***************************************************************************)
(* Single-entity lookups                                                   *)
(***************************************************************************)
\* get_department_info has been asked for a department by name
DepartmentRequested ==
  /\ pc = "replying"
  /\ server = "hrm"
  /\ request.name = "get_department_info"
  /\ request.arguments # undefined
  /\ Args.departmentName # undefined

\* the positions of the departments the requested name designates, letter case aside
DepartmentMatches ==
  {i \in DOMAIN db.departments :
     toLowerCase(db.departments[i].name) = toLowerCase(Args.departmentName[1])}

\* the department the lookup designates: the first one in the collection
RequestedDepartment ==
  db.departments[CHOOSE i \in DepartmentMatches : \A j \in DepartmentMatches : i <= j]

(***************************************************************************)
(* C12: get_department_info for a department whose manager id is the id of *)
(* no employee succeeds, lists every employee whose department is that     *)
(* department, in collection order, and reports the manager as             *)
(* "Not assigned".                                                         *)
(***************************************************************************)
C12_DepartmentWithoutManager ==
  (/\ DepartmentRequested
   /\ DepartmentMatches # {}
   /\ Dangling(db.employees, RequestedDepartment.manager)) =>
    /\ ~response.isError
    /\ response.content.manager = <<"Not assigned">>
    /\ response.content.employees =
         SelectSeq(db.employees, LAMBDA e : e.department = RequestedDepartment.name)

\* a department with a member and a manager id that resolves to no employee is reported
C12_Witness ==
  /\ DepartmentRequested
  /\ DepartmentMatches # {}
  /\ Dangling(db.employees, RequestedDepartment.manager)
  /\ ~response.isError
  /\ Len(response.content.employees) > 0
  /\ Len(response.content.employees) < Len(db.employees)

(***************************************************************************)
(* Salary analysis                                                         *)
(***************************************************************************)
\* salary_analysis has answered with its report
SalaryAnalysed ==
  /\ pc = "replying"
  /\ server = "hrm"
  /\ request.name = "salary_analysis"
  /\ ~response.isError

\* the employees whose value of the chosen key is `key`, in collection order
GroupMembers(key) == SelectSeq(db.employees, LAMBDA e : e[BreakdownField] = key)

RECURSIVE SalarySum(_)
SalarySum(employees) ==
  IF employees = <<>> THEN 0 ELSE Head(employees).salary + SalarySum(Tail(employees))

\* `average` is the integer nearest to total / count, a half rounded up
IsRoundedMean(average, total, count) ==
  /\ average.kind = "number"
  /\ average.d = 1
  /\ 2 * total - count < 2 * average.n * count
  /\ 2 * average.n * count <= 2 * total + count

\* employees {A: 100k}, {A: 120k}, {B: 80k}, grouped by department
SalaryScenario ==
  /\ SalaryAnalysed
  /\ BreakdownField = "department"
  /\ Len(db.employees) = 3
  /\ {<<db.employees[i].department, db.employees[i].salary>> : i \in DOMAIN db.employees}
       = {<<<<"E", "n", "g">>, 100000>>, <<<<"E", "n", "g">>, 120000>>,
          <<<<"O", "p", "s">>, 80000>>}

(***************************************************************************)
(* C13: salary_analysis partitions the employees by the chosen key: every  *)
(* key value that occurs has exactly one group, and the group reports the  *)
(* number of employees with that key, their mean salary rounded to an      *)
(* integer, their smallest and largest salary and the sum of their         *)
(* salaries.  Employees {A: 100k}, {A: 120k}, {B: 80k} give A count 2,     *)
(* average 110k and B count 1, average 80k.                                *)
(***************************************************************************)
C13_SalaryGroups ==
  SalaryAnalysed =>
    LET analysis == response.content.analysis
    IN  /\ {analysis[g].group : g \in DOMAIN analysis}
             = {db.employees[i][BreakdownField] : i \in DOMAIN db.employees}
        /\ \A g, h \in DOMAIN analysis : analysis[g].group = analysis[h].group => g = h
        /\ \A g \in DOMAIN analysis :
             LET members == GroupMembers(analysis[g].group)
             IN  /\ analysis[g].count = Len(members)
                 /\ analysis[g].totalPayroll = SalarySum(members)
                 /\ IsRoundedMean(analysis[g].averageSalary, SalarySum(members), Len(members))
                 /\ \E i \in DOMAIN members : members[i].salary = analysis[g].minSalary
                 /\ \E i \in DOMAIN members : members[i].salary = analysis[g].maxSalary
                 /\ \A i \in DOMAIN members :
                      /\ analysis[g].minSalary <= members[i].salary
                      /\ members[i].salary <= analysis[g].maxSalary
        /\ SalaryScenario =>
             [g \in DOMAIN analysis |->
                <<analysis[g].group, analysis[g].count, analysis[g].averageSalary.n>>]
               = <<<<<<"E", "n", "g">>, 2, 110000>>, <<<<"O", "p", "s">>, 1, 80000>>>>

\* the scenario of the claim is analysed and reported as two groups
C13_Witness ==
  /\ SalaryScenario
  /\ Len(response.content.analysis) = 2

\* a group of three whose mean salary is not an integer is reported
C13_RoundedMeanReported ==
  /\ SalaryAnalysed
  /\ \E g \in DOMAIN response.content.analysis :
       /\ response.content.analysis[g].count = 3
       /\ response.content.analysis[g].totalPayroll % 3 # 0

\* the position in the employee collection of the first employee with this key
FirstSeen(key) ==
  CHOOSE i \in DOMAIN db.employees :
    /\ db.employees[i][BreakdownField] = key
    /\ \A j \in 1..(i - 1) : db.employees[j][BreakdownField] # key

(***************************************************************************)
(* C14: the groups of salary_analysis are listed by descending average     *)
(* salary, and groups of equal average in the order in which their first   *)
(* employee occurs in the employee collection.                             *)
(***************************************************************************)
C14_SalaryGroupsRanked ==
  SalaryAnalysed =>
    LET analysis == response.content.analysis
    IN  \A g, h \in DOMAIN analysis :
          g < h =>
            \/ analysis[g].averageSalary.n > analysis[h].averageSalary.n
            \/ /\ analysis[g].averageSalary.n = analysis[h].averageSalary.n
               /\ FirstSeen(analysis[g].group) < FirstSeen(analysis[h].group)

\* two groups of equal average are listed, the one whose two employees come last in
\* the collection after the one whose only employee comes first
C14_Witness ==
  /\ SalaryAnalysed
  /\ LET analysis == response.content.analysis
     IN  /\ Len(analysis) = 2
         /\ analysis[1].averageSalary.n = analysis[2].averageSalary.n
         /\ analysis[1].count = 1
         /\ analysis[2].count = 2
         /\ FirstSeen(analysis[1].group) = 1

(***************************************************************************)
(* Incidents                                                               *)
(***************************************************************************)
\* incident_analysis has answered with its report
IncidentsAnalysed ==
  /\ pc = "replying"
  /\ request.name = "incident_analysis"
  /\ ~response.isError

\* the filtered incidents that have a resolution timestamp
ResolvedIncidents == SelectSeq(Results, LAMBDA i : i.resolvedAt # undefined)

\* the minutes from creation to resolution, summed over resolved incidents
RECURSIVE DurationSum(_)
DurationSum(incidents) ==
  IF incidents = <<>> THEN 0
  ELSE Head(incidents).resolvedAt[1] - Head(incidents).createdAt + DurationSum(Tail(incidents))

(***************************************************************************)
(* C15: in incident_analysis an incident without a resolution timestamp is *)
(* left out of the average MTTR but counted in the total and in the        *)
(* severity breakdown; the average is the mean duration of the filtered    *)
(* incidents that have a resolution timestamp.  The store keeps in mttr    *)
(* the minutes between createdAt and resolvedAt, and 0 for an incident     *)
(* that is not resolved.                                                   *)
(***************************************************************************)
C15_UnresolvedIncidents ==
  IncidentsAnalysed =>
    /\ response.content.length = Len(Results)
    /\ \A i \in DOMAIN Results :
         \E g \in DOMAIN response.content.severityBreakdown :
           /\ response.content.severityBreakdown[g].key = Results[i].severity
           /\ response.content.severityBreakdown[g].count =
                Len(SelectSeq(Results, LAMBDA r : r.severity = Results[i].severity))
    /\ ResolvedIncidents # <<>> =>
         IsRoundedMean(response.content.avgMttr, DurationSum(ResolvedIncidents),
                       Len(ResolvedIncidents))

\* two resolved incidents and an unresolved one are analysed together
C15_Witness ==
  /\ IncidentsAnalysed
  /\ Len(Results) = 3
  /\ Len(ResolvedIncidents) = 2
  /\ response.content.avgMttr.kind = "number"

(***************************************************************************)
(* The tool-call handler                                                   *)
(***************************************************************************)
\* the failed result that reports this error message
Failed(message) == [isError |-> TRUE, content |-> <<"Error: ", message>>]

(***************************************************************************)
(* C16: a tool call whose name is not one of the tools the server declares *)
(* ends in a failed result whose message names the unknown tool, whatever  *)
(* its arguments and whatever the store holds: no tool implementation      *)
(* contributes to it.                                                      *)
(***************************************************************************)
C16_UnknownToolRejected ==
  (pc = "replying" /\ request.name \notin declaredTools(server)) =>
    response = Failed(<<"Unknown tool: ", request.name>>)

\* the HRM server is asked for a tool that only the customer server declares
C16_Witness ==
  /\ pc = "replying"
  /\ server = "hrm"
  /\ request.name = "search_customers"
  /\ request.arguments # undefined
  /\ response.isError

(***************************************************************************)
(* Detail lookups                                                          *)
(***************************************************************************)
DetailTools == {"get_customer_details", "get_employee_details", "get_department_info"}

\* a detail lookup that supplies the id or the name to look up
DetailRequested ==
  /\ pc = "replying"
  /\ request.name \in DetailTools \cap declaredTools(server)
  /\ request.arguments # undefined
  /\ CASE request.name = "get_customer_details" -> Args.customerId # undefined
        [] request.name = "get_employee_details" -> Args.employeeId # undefined
        [] OTHER -> Args.departmentName # undefined

\* the id or the name that is looked up
DetailKey ==
  CASE request.name = "get_customer_details" -> Args.customerId[1]
    [] request.name = "get_employee_details" -> Args.employeeId[1]
    [] OTHER -> Args.departmentName[1]

\* some record of the looked-up collection carries the key
DetailMatch ==
  CASE request.name = "get_customer_details" ->
         \E i \in DOMAIN db.customers : db.customers[i].id = DetailKey
    [] request.name = "get_employee_details" ->
         \E i \in DOMAIN db.employees : db.employees[i].id = DetailKey
    [] OTHER ->
         \E i \in DOMAIN db.departments :
            toLowerCase(db.departments[i].name) = toLowerCase(DetailKey)

DetailNotFound ==
  CASE request.name = "get_customer_details" -> "Customer not found: "
    [] request.name = "get_employee_details" -> "Employee not found: "
    [] OTHER -> "Department not found: "

(***************************************************************************)
(* C17: a detail lookup (get_customer_details, get_employee_details,       *)
(* get_department_info) succeeds exactly when a record matches the id or   *)
(* name it was given; when none matches it yields the failed result whose  *)
(* message is "<Entity> not found: " followed by that id or name.          *)
(***************************************************************************)
C17_DetailLookup ==
  DetailRequested =>
    IF DetailMatch
    THEN ~response.isError
    ELSE response = Failed(<<DetailNotFound, DetailKey>>)

\* an employee id of no employee is looked up beside employees that exist
C17_Witness ==
  /\ DetailRequested
  /\ request.name = "get_employee_details"
  /\ DetailKey = <<"e", "9">>
  /\ ~DetailMatch
  /\ Len(db.employees) >= 2
  /\ response.isError

\* a lookup that finds its record
C17_FoundWitness ==
  /\ DetailRequested
  /\ request.name = "get_customer_details"
  /\ DetailMatch
  /\ ~response.isError

(***************************************************************************)
(* C18: every tools/call request is answered with a result: a successful   *)
(* one, or a failed one that carries "Error: " and the message of the      *)
(* error; no error of a tool leaves the handler.  A failed call leaves the *)
(* database as it was, and once its result is sent the server is back in   *)
(* the state in which it awaited the call.                                 *)
(***************************************************************************)
C18_ToolCallOutcome ==
  [][/\ (pc = "idle" /\ request'.method = "tools/call") =>
          /\ pc' = "replying"
          /\ response'.isError \in BOOLEAN
          /\ response'.isError => (response' = Failed(response'.content[2]) /\ db' = db)
     /\ (pc = "replying" /\ response.isError) =>
          /\ pc' = "idle"
          /\ request' = NoRequest
          /\ response' = NoResponse
          /\ db' = db
          /\ server' = server]_vars

\* a tool that reads a field of the arguments is called without arguments
C18_Witness ==
  /\ pc = "replying"
  /\ request.name = "salary_analysis"
  /\ request.arguments = undefined
  /\ response = Failed(TypeError)

(***************************************************************************)
(* C19: no step of the server changes the database: after any sequence of  *)
(* tool calls and resource reads, sorted and failed ones included, every   *)
(* collection holds the records it held at the start, in the same order.   *)
(***************************************************************************)
C19_DatabaseUnchanged == [][db' = db /\ server' = server]_vars

\* an unfiltered repository_metrics call has sorted its result into an order
\* that is not the order of the collection
C19_Witness ==
  /\ pc = "replying"
  /\ request.name = "repository_metrics"
  /\ request.arguments # undefined
  /\ Args.team = undefined /\ Args.type = undefined /\ Args.language = undefined
  /\ Args.sortBy = Some("coverage")
  /\ ~response.isError
  /\ response.content.length = Len(db.repositories)
  /\ response.content.results # db.repositories

\* a resource read has failed
C19_FailedReadWitness ==
  /\ pc = "raising"
  /\ request.method = "resources/read"
  /\ request.name \notin declaredResources(server)

\* a resource read has computed a view of the database
C19_ReadWitness ==
  /\ pc = "reading"
  /\ request.name = "engineering://team-structure"
  /\ Len(db.teams) >= 2

(***************************************************************************)
(* Sorted repositories                                                     *)
(***************************************************************************)
\* repository_metrics has answered a request for one of its four orderings
RepositoriesSorted == Filtered /\ SortRequested

\* the repositories the same criteria select when no ordering is requested
Unsorted == ResultsFor([Args EXCEPT !.sortBy = undefined])

\* the quantity a repository is ranked by, smallest first
SortKey(r) ==
  CASE Args.sortBy = Some("techDebt") -> 0 - r.techDebtScore
    [] Args.sortBy = Some("security") -> 0 - (r.securityVulns.critical + r.securityVulns.high)
    [] Args.sortBy = Some("coverage") -> r.testCoverage
    [] Args.sortBy = Some("uptime") -> r.uptime

\* the position of the record in the sequence
PositionIn(seq, x) == CHOOSE i \in DOMAIN seq : seq[i] = x

(***************************************************************************)
(* C20: repository_metrics with sortBy returns the repositories its        *)
(* criteria select, each once, ordered by the named comparator (techDebt:  *)
(* descending tech-debt score; security: descending critical + high count; *)
(* coverage: ascending test coverage; uptime: ascending uptime);           *)
(* repositories with equal keys stay in the order of the collection.       *)
(***************************************************************************)
C20_RepositoriesSorted ==
  RepositoriesSorted =>
    /\ Len(Results) = Len(Unsorted)
    /\ \A i \in DOMAIN Unsorted : Occurrences(Results, Unsorted[i]) = 1
    /\ \A i, j \in DOMAIN Results :
         i < j =>
           /\ SortKey(Results[i]) <= SortKey(Results[j])
           /\ SortKey(Results[i]) = SortKey(Results[j]) =>
                PositionIn(Unsorted, Results[i]) < PositionIn(Unsorted, Results[j])

\* the ordering has moved a repository ahead of two that tie
C20_Witness ==
  /\ RepositoriesSorted
  /\ Len(Results) = 3
  /\ Results # Unsorted
  /\ \E i, j \in DOMAIN Results : i < j /\ SortKey(Results[i]) = SortKey(Results[j])

(***************************************************************************)
(* Teams and their members                                                 *)
(***************************************************************************)
\* team_health_metrics has answered with a report
TeamsReported ==
  /\ pc = "replying"
  /\ server = "engineering"
  /\ request.name = "team_health_metrics"
  /\ ~response.isError

\* the team-structure view has been read
TeamStructureRead ==
  /\ pc = "reading"
  /\ server = "engineering"
  /\ request.name = "engineering://team-structure"

\* the member ids of the team that are ids of engineers, in declared order
ResolvableMembers(team) ==
  SelectSeq(team.engineers, LAMBDA id : ~Dangling(db.engineers, id))

(***************************************************************************)
(* C21: the member count team_health_metrics reports for a team is the     *)
(* length of the team's declared member-id list, resolvable or not; the    *)
(* engineerDetails of the team-structure view holds exactly the members    *)
(* that resolve to an engineer, in declared order, and nothing for the     *)
(* others.                                                                 *)
(***************************************************************************)
C21_TeamMembers ==
  /\ TeamsReported =>
       \A i \in DOMAIN Results :
         response.content.teams[i].engineers = Len(Results[i].engineers)
  /\ TeamStructureRead =>
       \A i \in DOMAIN db.teams :
         LET details == response.teams[i].engineerDetails
             members == ResolvableMembers(db.teams[i])
         IN  /\ Len(details) = Len(members)
             /\ \A k \in DOMAIN members :
                  LET engineer == findById(db.engineers, members[k])[1]
                  IN  details[k] = [id |-> engineer.id, name |-> engineer.name,
                                    role |-> engineer.role, level |-> engineer.level]

\* a team declares three members of whom two are engineers
C21_Witness ==
  /\ TeamStructureRead
  /\ \E i \in DOMAIN db.teams :
       /\ Len(db.teams[i].engineers) = 3
       /\ Len(response.teams[i].engineerDetails) = 2

\* the health report counts three members for a team of which one is no engineer
C21_CountWitness ==
  /\ TeamsReported
  /\ \E i \in DOMAIN Results :
       /\ response.content.teams[i].engineers = 3
       /\ Len(ResolvableMembers(Results[i])) < 3

(***************************************************************************)
(* Skills                                                                  *)
(***************************************************************************)
\* search_engineers has answered a request that carries a skill criterion
SkillRequested ==
  /\ Filtered
  /\ request.name = "search_engineers"
  /\ Args.skill # undefined

\* the criterion, lower-cased, is a substring of a lower-cased skill of the engineer
HasSkill(eng, criterion) ==
  \E i \in DOMAIN eng.skills :
    includes(toLowerCase(eng.skills[i]), toLowerCase(criterion))

\* the engineers the other criteria of the request select
WithoutSkill == ResultsFor([Args EXCEPT !.skill = undefined])

\* the result keeps exactly the engineers that have the skill
KeepsSkilled ==
  /\ \A i \in DOMAIN WithoutSkill :
       InResults(WithoutSkill[i]) <=> HasSkill(WithoutSkill[i], Args.skill[1])
  /\ \A i \in DOMAIN Results : Results[i].skills # <<>>

(***************************************************************************)
(* C22 as stated: whenever a skill criterion is supplied, search_engineers *)
(* keeps an engineer if and only if the criterion, lower-cased, is a       *)
(* substring of one of the engineer's skills, lower-cased, and an engineer *)
(* without skills is never kept.                                           *)
(***************************************************************************)
C22_SkillSupplied == SkillRequested => KeepsSkilled

(***************************************************************************)
(* C22: whenever a skill criterion other than the empty string is          *)
(* supplied, search_engineers keeps an engineer if and only if the         *)
(* criterion, lower-cased, is a substring of one of the engineer's skills, *)
(* lower-cased, and an engineer without skills is never kept.              *)
(***************************************************************************)
C22_SkillFilter == (SkillRequested /\ Args.skill[1] # <<>>) => KeepsSkilled

\* an upper-case part of a skill keeps one engineer and drops one without skills
C22_Witness ==
  /\ SkillRequested
  /\ Args.skill = Some(<<"O">>)
  /\ \E i \in DOMAIN WithoutSkill : WithoutSkill[i].skills = <<>>
  /\ Len(Results) >= 1

(***************************************************************************)
(* Fields of the arguments that no statement of the tool reads             *)
(***************************************************************************)
UnreadKeys == {"timeframe", "limit"}

\* a tool has answered a request whose arguments carry a field it does not read
UnreadFieldSupplied ==
  /\ pc = "replying"
  /\ request.name \in declaredTools(server)
  /\ request.arguments # undefined
  /\ \E key \in UnreadKeys \cap DOMAIN Args : Args[key] # undefined

\* the arguments of the request without the fields the tool does not read
WithoutUnread == [key \in DOMAIN Args |-> IF key \in UnreadKeys THEN undefined ELSE Args[key]]

C23_UndeclaredKeyWitness ==
  /\ UnreadFieldSupplied
  /\ request.name = "oncall_schedule"
  /\ Args.limit = Some(10)
  /\ response.content.length >= 1

(***************************************************************************)
(* Averages of durations                                                   *)
(***************************************************************************)
\* the duration averages of a report over records of which none has a duration
AveragesOverUntimed ==
  IF pc # "replying" \/ response.isError THEN {}
  ELSE CASE /\ request.name = "incident_analysis"
            /\ Len(Results) > 0
            /\ \A i \in DOMAIN Results : Results[i].mttr = 0 ->
              {response.content.avgMttr}
         [] /\ request.name = "code_review_metrics"
            /\ Len(Results) > 0
            /\ \A i \in DOMAIN Results : Results[i].reviewTime = 0 ->
              {response.content.avgReviewTime}
         [] OTHER -> {}

(***************************************************************************)
(* C24: the average MTTR of incident_analysis and the average review time  *)
(* of code_review_metrics are numbers, never NaN, when the filtered set is *)
(* not empty but none of its records has a duration.                       *)
(***************************************************************************)
C24_AverageOfUntimedIsDefined ==
  \A average \in AveragesOverUntimed : average.kind = "number"

(***************************************************************************)
(* The query criterion                                                     *)
(***************************************************************************)
\* a search tool has answered a request that carries a query
QueryRequested ==
  /\ Filtered
  /\ request.name \in {"search_customers", "search_employees", "search_engineers"}
  /\ Args.query # undefined

\* the records the other criteria of the request select
WithoutQuery == ResultsFor([Args EXCEPT !.query = undefined])

(***************************************************************************)
(* C25: the query of a search tool is one criterion: a record matches it   *)
(* when the query, letter case aside, is a substring of its name, email or *)
(* id (first name, last name, email or id of an employee), and the result  *)
(* holds exactly the records that match it among those the other criteria  *)
(* select.                                                                 *)
(***************************************************************************)
C25_QueryCriterion ==
  QueryRequested =>
    Results = SelectSeq(WithoutQuery,
                        LAMBDA rec : Satisfies(request.name, "query", rec, Args.query[1]))

\* an upper-case query finds a customer by its email only, beside a tier
\* criterion, and a customer of the collection is left out
C25_Witness ==
  /\ QueryRequested
  /\ request.name = "search_customers"
  /\ Args.query = Some(ACME)
  /\ Args.tier = Some("enterprise")
  /\ \E i \in DOMAIN Results : Results[i].id = <<"c", "3">>
  /\ Len(Results) < Len(db.customers)

(***************************************************************************)
(* Resource reads that fail                                                *)
(***************************************************************************)
\* the handler of a resources/read request for a uri the server does not list
\* has run
UnknownResourceRead ==
  /\ pc # "idle"
  /\ request.method = "resources/read"
  /\ request.name \notin declaredResources(server)

(***************************************************************************)
(* C26: a resources/read request for a uri the server does not list ends   *)
(* in a failed result (isError with the message of the error) that the     *)
(* handler returns; the error does not leave the handler.                  *)
(***************************************************************************)
C26_UnknownResourceFails ==
  UnknownResourceRead =>
    /\ pc = "reading"
    /\ response = Failed(<<"Unknown resource: ", request.name>>)

(***************************************************************************)
(* C27: when the handlers of several tools/call requests overlap, each     *)
(* request gets the result it gets when it is served alone: the result of  *)
(* the handler for its own name and arguments on the database, whatever    *)
(* other requests are in flight or were served before.                     *)
(***************************************************************************)
C27_OverlapEqualsSerial ==
  \A slot \in DOMAIN calls :
    calls[slot].stage = "done" =>
      calls[slot].result =
        callToolHandler(server, db, calls[slot].name, calls[slot].arguments).value

\* two requests were in flight together: a sorted one that succeeded and one
\* that failed
C27_Witness ==
  \E s, t \in DOMAIN calls :
    /\ s # t
    /\ calls[s].stage = "done" /\ calls[t].stage = "done"
    /\ calls[s].name = "repository_metrics"
    /\ calls[s].arguments = Some(OnlySortBy(Some("coverage")))
    /\ ~calls[s].result.isError
    /\ calls[s].result.content.results # db.repositories
    /\ calls[t].result.isError

(***************************************************************************)
(* Criteria with a falsy value                                             *)
(***************************************************************************)
\* the criteria of the request that carry the empty string or 0
FalsyKeys ==
  {key \in CriteriaKeys : Args[key] # undefined /\ Falsy(request.name, key, Args[key][1])}

\* a filtering tool has answered a request with such a criterion
FalsySupplied == Filtered /\ FalsyKeys # {}

\* the arguments of the request without these criteria
WithoutFalsy == [key \in DOMAIN Args |-> IF key \in FalsyKeys THEN undefined ELSE Args[key]]

(***************************************************************************)
(* C28: a criterion supplied as the empty string, or as 0 for minRevenue,  *)
(* is treated as not supplied: the result is the result of the same call   *)
(* without the criterion, also when the criterion is an exact match such   *)
(* as status = "", which no record satisfies.                              *)
(***************************************************************************)
C28_FalsyCriterionSkipped ==
  FalsySupplied =>
    response = CallTool(dispatch(server, db, request.name, Some(WithoutFalsy)))

\* status = "" beside a criterion that keeps some employees and drops others
C28_Witness ==
  /\ FalsySupplied
  /\ request.name = "search_employees"
  /\ Args.status = Some("")
  /\ Args.position # undefined
  /\ Len(Results) >= 1
  /\ Len(Results) < Len(db.employees)

\* minRevenue = 0 is skipped
C28_ZeroWitness ==
  /\ FalsySupplied
  /\ request.name = "search_customers"
  /\ Args.minRevenue = Some(0)
  /\ Len(Results) >= 1

(***************************************************************************)
(* Calls without arguments                                                 *)
(***************************************************************************)
\* a declared tool has answered a request that carries no arguments object
NoArguments ==
  /\ pc = "replying"
  /\ request.name \in declaredTools(server)
  /\ request.arguments = undefined

(***************************************************************************)
(* C29 as stated: a call to any declared tool without an arguments object  *)
(* ends in the failed result of the TypeError that reading a field of the  *)
(* absent object raises.                                                   *)
(***************************************************************************)
C29_NoArgumentsFails == NoArguments => response = Failed(TypeError)

(***************************************************************************)
(* C29: a call without an arguments object to a declared tool other than   *)
(* revenue_analytics ends in the failed result of the TypeError that       *)
(* reading a field of the absent object raises, not in the unfiltered      *)
(* result; revenue_analytics reads no field of its arguments and succeeds. *)
(***************************************************************************)
C29_NoArgumentsFailsIfRead ==
  NoArguments =>
    IF request.name = "revenue_analytics"
    THEN ~response.isError
    ELSE response = Failed(TypeError)

\* a filtering tool is called without arguments on a collection of several records
C29_Witness ==
  /\ NoArguments
  /\ request.name = "get_project_status"
  /\ Len(db.projects) >= 2
  /\ response.isError

(***************************************************************************)
(* Customer health                                                         *)
(***************************************************************************)
\* analyze_customer_health has answered with a report
HealthAnalysed ==
  /\ pc = "replying"
  /\ server = "customer"
  /\ request.name = "analyze_customer_health"
  /\ ~response.isError

\* the threshold the request asks for: 90 days when it names none or names 0
RequestedThreshold ==
  IF Args.daysThreshold = undefined \/ Args.daysThreshold = Some(0) THEN 90
  ELSE Args.daysThreshold[1]

\* the customer is one of the at-risk customers of the report
ReportedAtRisk(customer) ==
  \E i \in DOMAIN response.content.atRiskCustomers :
    response.content.atRiskCustomers[i].customer = customer

(***************************************************************************)
(* C30: analyze_customer_health reports every customer as healthy or as    *)
(* at-risk, never both, so the two counts add up to the number of          *)
(* customers; a customer is at-risk if and only if more days than the      *)
(* threshold have passed since its last order or it has more than 5        *)
(* support tickets; a stored status of at_risk shows as a risk factor of   *)
(* an at-risk customer and does not decide the class; a threshold of 0 or  *)
(* none is replaced by 90.                                                 *)
(***************************************************************************)
C30_CustomerHealth ==
  HealthAnalysed =>
    /\ response.content.daysThreshold = RequestedThreshold
    /\ response.content.healthyCustomers + Len(response.content.atRiskCustomers)
         = Len(db.customers)
    /\ \A i \in DOMAIN db.customers :
         ReportedAtRisk(db.customers[i]) <=>
           \/ today - db.customers[i].lastOrderDate > RequestedThreshold
           \/ db.customers[i].supportTickets > 5
    /\ \A i \in DOMAIN response.content.atRiskCustomers :
         LET entry == response.content.atRiskCustomers[i]
         IN  (entry.customer.status = "at_risk") <=>
               (\E k \in DOMAIN entry.riskFactors :
                  entry.riskFactors[k] = "Manually marked as at-risk")

\* with the threshold given as 0, a customer stored as at_risk whose last order
\* is exactly 90 days old and that has 5 tickets is healthy beside one at risk
C30_Witness ==
  /\ HealthAnalysed
  /\ Args.daysThreshold = Some(0)
  /\ Len(response.content.atRiskCustomers) >= 1
  /\ \E i \in DOMAIN db.customers :
       /\ db.customers[i].status = "at_risk"
       /\ today - db.customers[i].lastOrderDate = 90
       /\ db.customers[i].supportTickets = 5
       /\ ~ReportedAtRisk(db.customers[i])

\* a customer stored as at_risk is at risk by its last order and shows both factors
C30_FactorWitness ==
  /\ HealthAnalysed
  /\ \E i \in DOMAIN response.content.atRiskCustomers :
       response.content.atRiskCustomers[i].riskFactors =
         <<"days since last order", "Manually marked as at-risk">>

====
